---- MODULE Spec2Model ----
(***************************************************************************)
(* A model of the file-ingestion handler askWithFiles, of the PDF          *)
(* extractor extractTextFromPdf and of the OCR fallback chain extractText  *)
(* / tesseractOcr.                                                         *)
(*                                                                         *)
(* JavaScript strings are TLA+ strings (TLC evaluates Len, \o and SubSeq   *)
(* on them), so templates, trim(), slice() and join() are computed as the  *)
(* code computes them.  Other JavaScript values are tagged tuples:         *)
(*   <<"undefined">>, <<"null">>, <<"string", s>>, <<"buffer", bytes>>.    *)
(* What a third-party decoder (pdf-parse, mammoth, xlsx) does with the     *)
(* bytes of a file is a field of the file, f.decode: the decoders are      *)
(* functions of the bytes, and the model does not look inside them.        *)
(***************************************************************************)
EXTENDS Integers, Sequences, FiniteSets, TLC

VARIABLES req, env, inv, res, ocr, calls, auth

vars == <<req, env, inv, res, ocr, calls, auth>>

-----------------------------------------------------------------------------
(* Bounds of the model. *)

MaxFiles == 2
MaxPages == 2

-----------------------------------------------------------------------------
(* JavaScript values. *)

Undefined == <<"undefined">>
Null == <<"null">>
Str(s) == <<"string", s>>
Buf(bytes) == <<"buffer", bytes>>

IsStr(v) == v[1] = "string"
IsBuf(v) == v[1] = "buffer"

\* ToBoolean: undefined, null and "" are falsy; a Buffer object is truthy.
Truthy(v) == IF IsStr(v) THEN v[2] # "" ELSE IsBuf(v)

\* A JSON number in a request body; every number but 0 is truthy.
Num(n) == <<"number", n>>

Present(v) == Truthy(v) \/ (v[1] = "number" /\ v[2] # 0)

Min(a, b) == IF a < b THEN a ELSE b

-----------------------------------------------------------------------------
(* String primitives. *)

CharAt(s, i) == SubSeq(s, i, i)

IsWhitespace(c) == c \in {" ", "\n", "\t", "\r"}

RECURSIVE TrimStart(_)
TrimStart(s) ==
  IF Len(s) > 0 /\ IsWhitespace(CharAt(s, 1))
  THEN TrimStart(SubSeq(s, 2, Len(s)))
  ELSE s

RECURSIVE TrimEnd(_)
TrimEnd(s) ==
  IF Len(s) > 0 /\ IsWhitespace(CharAt(s, Len(s)))
  THEN TrimEnd(SubSeq(s, 1, Len(s) - 1))
  ELSE s

\* String.prototype.trim
Trim(s) == TrimEnd(TrimStart(s))

\* String.prototype.slice(0, n)
Slice0(s, n) == SubSeq(s, 1, Min(Len(s), n))

\* String.prototype.startsWith
StartsWith(s, p) == Len(s) >= Len(p) /\ SubSeq(s, 1, Len(p)) = p

\* Array.prototype.join over an array of strings
RECURSIVE Join(_, _)
Join(ss, sep) ==
  IF Len(ss) = 0 THEN ""
  ELSE IF Len(ss) = 1 THEN ss[1]
  ELSE ss[1] \o sep \o Join(Tail(ss), sep)

\* s repeated n times
RECURSIVE Repeat(_, _)
Repeat(s, n) ==
  IF n = 0 THEN ""
  ELSE IF n % 2 = 1 THEN s \o Repeat(s, n - 1)
  ELSE LET h == Repeat(s, n \div 2) IN h \o h

\* The position of the last "." of s, 0 when there is none.
RECURSIVE LastDot(_, _)
LastDot(s, i) ==
  IF i = 0 THEN 0
  ELSE IF CharAt(s, i) = "." THEN i
  ELSE LastDot(s, i - 1)

\* name.split(".").pop(): what follows the last ".", the whole name without one
SplitPop(s) == SubSeq(s, LastDot(s, Len(s)) + 1, Len(s))

RECURSIVE IndexIn(_, _, _)
IndexIn(c, table, i) ==
  IF i > Len(table) THEN 0
  ELSE IF CharAt(table, i) = c THEN i
  ELSE IndexIn(c, table, i + 1)

\* The lower-case letter of each upper-case letter.
LowerOf ==
  [A |-> "a", B |-> "b", C |-> "c", D |-> "d", E |-> "e", F |-> "f", G |-> "g",
   H |-> "h", I |-> "i", J |-> "j", K |-> "k", L |-> "l", M |-> "m", N |-> "n",
   O |-> "o", P |-> "p", Q |-> "q", R |-> "r", S |-> "s", T |-> "t", U |-> "u",
   V |-> "v", W |-> "w", X |-> "x", Y |-> "y", Z |-> "z"]

LowerChar(c) == IF c \in DOMAIN LowerOf THEN LowerOf[c] ELSE c

\* String.prototype.toLowerCase
RECURSIVE ToLowerCase(_)
ToLowerCase(s) ==
  IF Len(s) = 0 THEN ""
  ELSE LowerChar(CharAt(s, 1)) \o ToLowerCase(SubSeq(s, 2, Len(s)))

\* Number.prototype.toFixed(1) of bytes / 1024: tenths, rounded half up
KB(bytes) ==
  LET tenths == (bytes * 10 + 512) \div 1024
  IN ToString(tenths \div 10) \o "." \o ToString(tenths % 10)

-----------------------------------------------------------------------------
(* Buffer.prototype.toString("base64").  AsciiLow lists the characters of *)
(* codes 32..95 and AsciiHigh those of codes 97..126; the bytes of the    *)
(* model's buffers are among them.                                        *)

AsciiLow == " !\"#$%&'()*+,-./0123456789:;<=>?@ABCDEFGHIJKLMNOPQRSTUVWXYZ[\\]^_"
AsciiHigh == "abcdefghijklmnopqrstuvwxyz{|}~"
B64 == "ABCDEFGHIJKLMNOPQRSTUVWXYZabcdefghijklmnopqrstuvwxyz0123456789+/"

CharCode(c) ==
  IF c = "\n" THEN 10
  ELSE IF IndexIn(c, AsciiLow, 1) > 0 THEN IndexIn(c, AsciiLow, 1) + 31
  ELSE IndexIn(c, AsciiHigh, 1) + 96

RECURSIVE Base64(_)
Base64(s) ==
  IF Len(s) = 0 THEN ""
  ELSE
    LET b1 == CharCode(CharAt(s, 1))
        b2 == IF Len(s) >= 2 THEN CharCode(CharAt(s, 2)) ELSE 0
        b3 == IF Len(s) >= 3 THEN CharCode(CharAt(s, 3)) ELSE 0
        n  == b1 * 65536 + b2 * 256 + b3
        c1 == CharAt(B64, (n \div 262144) + 1)
        c2 == CharAt(B64, ((n \div 4096) % 64) + 1)
        c3 == IF Len(s) >= 2 THEN CharAt(B64, ((n \div 64) % 64) + 1) ELSE "="
        c4 == IF Len(s) >= 3 THEN CharAt(B64, (n % 64) + 1) ELSE "="
    IN c1 \o c2 \o c3 \o c4 \o Base64(SubSeq(s, 4, Len(s)))

-----------------------------------------------------------------------------
(* Uploaded files (multer's file objects) and what their decoders do. *)

\* A decoder call that throws / rejects with an Error carrying msg.
Throws(msg) == [threw |-> TRUE, message |-> msg, texts |-> <<>>, numpages |-> 0]

\* A decoder call that returns: texts is <<data.text>> for pdf-parse (<<>> when
\* data.text is undefined), <<result.value>> for mammoth, and the CSV of each
\* sheet in SheetNames order for xlsx.
Returns(texts, n) == [threw |-> FALSE, message |-> "", texts |-> texts, numpages |-> n]

UploadedFile(originalname, buffer, decode) ==
  [originalname |-> originalname, filename |-> Undefined,
   buffer |-> buffer, decode |-> decode]

NoDecoder == Returns(<<>>, 0)

LongText == Repeat("a", 20000) \o "bcd"

FileSet ==
  { UploadedFile(Str("a.pdf"), Buf("%PDF-1.4 text"), Returns(<<"Hello pdf">>, 1)),
    UploadedFile(Str("scan.PDF"), Buf("%PDF-1.7 img"), Returns(<<"">>, 2)),
    UploadedFile(Str("bad.pdf"), Buf("<html>"), Returns(<<"never parsed">>, 1)),
    UploadedFile(Str("enc.pdf"), Buf("%PDF-1.4 enc"), Throws("Invalid PDF structure")),
    UploadedFile(Str("empty.pdf"), Buf(""), Throws("never parsed")),
    UploadedFile(Str("nobuf.pdf"), Undefined, Returns(<<"never parsed">>, 1)),
    UploadedFile(Str("blank.docx"), Buf("PK blank"), Returns(<<" \n ">>, 0)),
    UploadedFile(Str("bad.docx"), Undefined, Throws("Could not find file in options")),
    UploadedFile(Str("s.xlsx"), Buf("PK xls"), Returns(<<"a,b\n1,2\n", "x\n">>, 0)),
    UploadedFile(Str("file.txt"), Buf("hello world"), NoDecoder),
    UploadedFile(Str("empty.html"), Buf(""), NoDecoder),
    UploadedFile(Str("nobuf.txt"), Undefined, NoDecoder),
    UploadedFile(Str("long.txt"), Buf(LongText), NoDecoder),
    UploadedFile(Str("p.JPG"), Buf("JFIF"), NoDecoder),
    UploadedFile(Str("q.png"), Buf("PNG!"), NoDecoder),
    UploadedFile(Str("nobuf.gif"), Undefined, NoDecoder),
    UploadedFile(Undefined, Buf("MZ"), NoDecoder) }

\* Uploads for every image extension, in either case, and for extensions that
\* are not in the handler's list.
ImageFileSet ==
  { UploadedFile(Str("a.jpg"), Buf("JFIF"), NoDecoder),
    UploadedFile(Str("b.JPEG"), Buf("Exif"), NoDecoder),
    UploadedFile(Str("c.png"), Buf("PNG!"), NoDecoder),
    UploadedFile(Str("d.webp"), Buf("RIFF"), NoDecoder),
    UploadedFile(Str("e.gif"), Buf("GIF8"), NoDecoder),
    UploadedFile(Str("f.tif"), Buf("II*"), NoDecoder),
    UploadedFile(Str("g.Tiff"), Buf("MM*"), NoDecoder),
    UploadedFile(Str("h.bmp"), Buf("BM"), NoDecoder),
    UploadedFile(Str("i.heic"), Buf("ftyp"), NoDecoder),
    UploadedFile(Str("j.svg"), Buf("<svg>"), NoDecoder),
    UploadedFile(Str("k.image"), Buf("????"), NoDecoder),
    UploadedFile(Str("notes.txt"), Buf("see the images"), NoDecoder) }

-----------------------------------------------------------------------------
(* extractTextFromPdf *)

ScannedInfo == "This appears to be a scanned PDF or image-based PDF. No text could be extracted automatically. Consider uploading as images instead for better analysis."

\* extractTextFromPdf throws an Error; parsed: whether pdfParse was called.
PdfThrow(msg, parsed) ==
  [threw |-> TRUE, message |-> msg, text |-> Undefined, isScanned |-> FALSE,
   pages |-> 0, info |-> Undefined, parsed |-> parsed]

\* extractTextFromPdf returns { text, isScanned, pages, info }.
PdfReturn(text, isScanned, pages, info) ==
  [threw |-> FALSE, message |-> "", text |-> text, isScanned |-> isScanned,
   pages |-> pages, info |-> info, parsed |-> TRUE]

\* PdfTry without the check of the header.
PdfTry_NoHeaderCheck(buffer, decode) ==
  IF ~Truthy(buffer) \/ Len(buffer[2]) = 0
  THEN PdfThrow("Empty or invalid buffer", FALSE)
  ELSE IF decode.threw
  THEN PdfThrow(decode.message, TRUE)
  ELSE IF Len(decode.texts) = 0 \/ decode.texts[1] = ""
  THEN PdfReturn(Str(""), TRUE, decode.numpages, Str(ScannedInfo))
  ELSE PdfReturn(Str(decode.texts[1]), FALSE, decode.numpages, Undefined)

\* The try block: the two input checks, the parse, the zero-length test.
PdfTry(buffer, decode) ==
  IF ~Truthy(buffer) \/ Len(buffer[2]) = 0
  THEN PdfThrow("Empty or invalid buffer", FALSE)
  ELSE IF ~StartsWith(Slice0(buffer[2], 4), "%PDF")
  THEN PdfThrow("File does not appear to be a valid PDF (missing %PDF header)", FALSE)
  ELSE IF decode.threw
  THEN PdfThrow(decode.message, TRUE)
  ELSE
    LET extractedLength ==
          IF Len(decode.texts) > 0 THEN Len(decode.texts[1]) ELSE 0
    IN IF extractedLength = 0
       THEN PdfReturn(Str(""), TRUE, decode.numpages, Str(ScannedInfo))
       ELSE PdfReturn(Str(decode.texts[1]), FALSE, decode.numpages, Undefined)

\* PdfCatch that throws the same message whatever was caught.
PdfCatch_Generic(r) ==
  IF r.threw THEN PdfThrow("PDF parsing failed", r.parsed) ELSE r

\* The catch block: whatever the try block threw is thrown again, wrapped.
PdfCatch(r) ==
  IF r.threw THEN PdfThrow("PDF parsing failed: " \o r.message, r.parsed) ELSE r

extractTextFromPdf(buffer, decode) == PdfCatch(PdfTry(buffer, decode))

-----------------------------------------------------------------------------
(* askWithFiles: one iteration of the loop over the files. *)

SliceLimit == 20000

\* ImageExts that also takes a name without an extension ("file") as an image.
ImageExts_WithFile ==
  {"jpg", "jpeg", "png", "webp", "tif", "tiff", "bmp", "gif", "file"}

ImageExts == {"jpg", "jpeg", "png", "webp", "tif", "tiff", "bmp", "gif"}

mimeTypes ==
  [jpg |-> "image/jpeg", jpeg |-> "image/jpeg", png |-> "image/png",
   webp |-> "image/webp", gif |-> "image/gif", tif |-> "image/tiff",
   tiff |-> "image/tiff", bmp |-> "image/bmp"]

\* MimeOf that gives the default for every extension.
MimeOf_AlwaysJpeg(ext) == "image/jpeg"

\* mimeTypes[ext] || "image/jpeg"
MimeOf(ext) == IF ext \in DOMAIN mimeTypes THEN mimeTypes[ext] ELSE "image/jpeg"

\* f.originalname || f.filename || "file"
FileName(f) ==
  IF Truthy(f.originalname) THEN f.originalname[2]
  ELSE IF Truthy(f.filename) THEN f.filename[2]
  ELSE "file"

\* (name.split(".").pop() || "").toLowerCase()
FileExt(name) == ToLowerCase(SplitPop(name))

\* f.buffer ? f.buffer.length : 0
FileSize(f) == IF Truthy(f.buffer) THEN Len(f.buffer[2]) ELSE 0

\* The loop's locals when the try block ends normally, with what it pushed to
\* imageParts and whether it handed the buffer to pdfParse.
Extracted(text, extractionError, isScanned, pushed, parsed) ==
  [threw |-> FALSE, message |-> "", text |-> text,
   extractionError |-> extractionError, isScanned |-> isScanned,
   pushed |-> pushed, parsed |-> parsed]

\* ExtractThrew that swallows the exception: the try block ends normally.
ExtractThrew_Swallowed(msg, parsed) ==
  [threw |-> FALSE, message |-> "", text |-> Str(""),
   extractionError |-> Null, isScanned |-> FALSE, pushed |-> <<>>,
   parsed |-> parsed]

\* The try block is left by an exception: the locals still hold their initial
\* values, and nothing was pushed.
ExtractThrew(msg, parsed) ==
  [threw |-> TRUE, message |-> msg, text |-> Str(""),
   extractionError |-> Null, isScanned |-> FALSE, pushed |-> <<>>,
   parsed |-> parsed]

ImagePlaceholder(name) == "[Image: " \o name \o " - will be analyzed by AI vision]"

\* The try block of one iteration: the dispatch on the extension.
TryExtract(f, name, ext) ==
  IF ext = "pdf" THEN
    LET pdfResult == extractTextFromPdf(f.buffer, f.decode)
    IN IF pdfResult.threw THEN ExtractThrew(pdfResult.message, pdfResult.parsed)
       ELSE Extracted(pdfResult.text,
                      IF pdfResult.isScanned THEN pdfResult.info ELSE Null,
                      pdfResult.isScanned, <<>>, pdfResult.parsed)
  ELSE IF ext = "docx" THEN
    IF f.decode.threw THEN ExtractThrew(f.decode.message, FALSE)
    ELSE Extracted(IF Len(f.decode.texts) > 0 /\ f.decode.texts[1] # ""
                   THEN Str(f.decode.texts[1]) ELSE Str(""),
                   Null, FALSE, <<>>, FALSE)
  ELSE IF ext = "xlsx" THEN
    IF f.decode.threw THEN ExtractThrew(f.decode.message, FALSE)
    ELSE Extracted(Str(Join(f.decode.texts, "\n")), Null, FALSE, <<>>, FALSE)
  ELSE IF ext = "txt" \/ ext = "html" THEN
    IF ~Truthy(f.buffer) \/ Len(f.buffer[2]) = 0
    THEN ExtractThrew("Empty or invalid buffer for text file", FALSE)
    ELSE Extracted(Str(f.buffer[2]), Null, FALSE, <<>>, FALSE)
  ELSE IF ext \in ImageExts THEN
    IF ~IsBuf(f.buffer)
    THEN ExtractThrew("Cannot read properties of undefined (reading 'toString')", FALSE)
    ELSE Extracted(Str(ImagePlaceholder(name)), Null, FALSE,
                   <<[name |-> name, mimeType |-> MimeOf(ext),
                      data |-> Base64(f.buffer[2])]>>,
                   FALSE)
  ELSE Extracted(Str(""), Null, FALSE, <<>>, FALSE)

\* CatchExtract that records the error and throws it on.
CatchExtract_Rethrow(t) ==
  IF t.threw
  THEN [t EXCEPT !.extractionError = Str(t.message), !.text = Str("")]
       @@ [escaped |-> TRUE]
  ELSE t @@ [escaped |-> FALSE]

\* CatchExtract that leaves the message as the text of the record.
CatchExtract_MessageAsText(t) ==
  IF t.threw
  THEN [t EXCEPT !.extractionError = Str(t.message), !.text = Str(t.message)]
       @@ [escaped |-> FALSE]
  ELSE t @@ [escaped |-> FALSE]

\* The catch block of one iteration: the error is recorded, the text emptied;
\* nothing is thrown on (escaped) to the handler's own catch.
CatchExtract(t) ==
  IF t.threw
  THEN [t EXCEPT !.extractionError = Str(t.message), !.text = Str("")]
       @@ [escaped |-> FALSE]
  ELSE t @@ [escaped |-> FALSE]

\* The record pushed to parts.
PartOf(name, ext, size, c) ==
  [name |-> name, ext |-> ext,
   text |-> IF Truthy(c.text) THEN c.text[2] ELSE "",
   size |-> size, error |-> c.extractionError]

\* One iteration on file f: what it pushes to parts and to imageParts.
Iteration(f) ==
  LET name == FileName(f)
      ext == FileExt(name)
      size == FileSize(f)
      c == CatchExtract(TryExtract(f, name, ext))
  IN [escaped |-> c.escaped, message |-> c.message,
      part |-> PartOf(name, ext, size, c),
      pushed |-> c.pushed, parsed |-> c.parsed]

\* Iteration of every file of the model, computed once: an iteration depends
\* on its file only.
IterationOf == [f \in FileSet \cup ImageFileSet |-> Iteration(f)]

-----------------------------------------------------------------------------
(* askWithFiles: aggregation, the response object and the prompt. *)

\* HasText without the trim: whitespace-only text is kept.
HasText_NoTrim(p) == p.text # ""

\* p.text && p.text.trim().length > 0
HasText(p) == p.text # "" /\ Len(Trim(p.text)) > 0

\* parts.filter(HasText)
RECURSIVE FilterHasText(_)
FilterHasText(parts) ==
  IF Len(parts) = 0 THEN <<>>
  ELSE (IF HasText(parts[1]) THEN <<parts[1]>> ELSE <<>>)
       \o FilterHasText(Tail(parts))

\* Block without the slice: the whole text follows the header.
Block_NoSlice(p) ==
  "--- " \o p.name \o " (" \o p.ext \o ") ---\n" \o p.text

\* `--- ${p.name} (${p.ext}) ---\n${(p.text || "").slice(0, 20000)}`
Block(p) ==
  "--- " \o p.name \o " (" \o p.ext \o ") ---\n" \o Slice0(p.text, SliceLimit)

\* Combined with a single newline between the blocks.
Combined_SingleNewline(parts) ==
  LET kept == FilterHasText(parts)
  IN Join([i \in 1..Len(kept) |-> Block(kept[i])], "\n")

Combined(parts) ==
  LET kept == FilterHasText(parts)
  IN Join([i \in 1..Len(kept) |-> Block(kept[i])], "\n\n")

\* p.error || null
ErrorOrNull(p) == IF Truthy(p.error) THEN p.error ELSE Null

FileEntry(p) ==
  [name |-> p.name, type |-> p.ext, size |-> p.size,
   textLength |-> Len(p.text), error |-> ErrorOrNull(p)]

\* Response with files built from the records that have text only.
Response_FromKept(parts, combined) ==
  [extracted |-> combined, answer |-> Null,
   files |-> [i \in 1..Len(FilterHasText(parts)) |-> FileEntry(FilterHasText(parts)[i])],
   error |-> Undefined]

\* The response object as first built: no answer, no error key.
Response(parts, combined) ==
  [extracted |-> combined, answer |-> Null,
   files |-> [i \in 1..Len(parts) |-> FileEntry(parts[i])],
   error |-> Undefined]

\* HasContent with >= for >: everything counts as content.
HasContent_AtLeastZero(combined, imageParts) ==
  Len(Trim(combined)) >= 0 \/ Len(imageParts) > 0

HasContent(combined, imageParts) ==
  Len(Trim(combined)) > 0 \/ Len(imageParts) > 0

\* `${p.name}: ${p.error || "Unknown error"}` joined by "; "
ErrorDetails(parts) ==
  Join([i \in 1..Len(parts) |->
          parts[i].name \o ": " \o
          (IF Truthy(parts[i].error) THEN parts[i].error[2] ELSE "Unknown error")],
       "; ")

\* ${p.type} in a template: the records of parts have no property "type".
TypeInTemplate(p) == IF "type" \in DOMAIN p THEN p.type ELSE "undefined"

\* One line of the file analysis; Bullet stands for the character U+2022.
Bullet == "*"

AnalysisLine(p) ==
  Bullet \o " " \o p.name \o " (" \o TypeInTemplate(p) \o ", " \o KB(p.size) \o "KB): " \o
  (IF Truthy(p.error) THEN p.error[2] ELSE "No text found")

DiagnosticHead ==
  "I couldn't extract any readable content from the uploaded files. This might be because:\n\n" \o
  "1. **Scanned PDF**: The PDF contains images/scans rather than selectable text\n" \o
  "2. **Encrypted PDF**: The PDF is password protected or encrypted\n" \o
  "3. **Corrupted file**: The file may be damaged\n" \o
  "4. **Unsupported format**: The file format isn't supported for text extraction\n\n" \o
  "File analysis:\n"

DiagnosticTail ==
  "\n\nFor scanned PDFs, you might need to use OCR (Optical Character Recognition) tools to extract the text first."

DiagnosticAnswer(parts) ==
  DiagnosticHead \o
  Join([i \in 1..Len(parts) |-> AnalysisLine(parts[i])], "\n") \o
  DiagnosticTail

NoContentResponse(response, parts) ==
  [response EXCEPT
     !.error = Str("No content could be extracted from the uploaded files. Details: "
                   \o ErrorDetails(parts)),
     !.answer = Str(DiagnosticAnswer(parts))]

PromptInstructions ==
  "\n\nPlease provide a detailed and accurate answer based on the uploaded content. For math problems in images, transcribe the problem first, then show step-by-step solutions with proper formatting. For images with diagrams or handwriting, describe what you see before answering."

\* PromptFraming that never mentions the images.
PromptFraming_TextOnly(combined, imageParts) ==
  IF Trim(combined) # "" THEN
    "I have uploaded the following files with extracted text:\n\n" \o combined \o "\n\n"
  ELSE ""

\* The mode framing that precedes the question.
PromptFraming(combined, imageParts) ==
  IF Len(imageParts) > 0 /\ Trim(combined) = "" THEN
    "I have uploaded " \o ToString(Len(imageParts)) \o
    " image(s) for analysis. Please examine them carefully and answer my question.\n\n"
  ELSE IF Len(imageParts) > 0 /\ Trim(combined) # "" THEN
    "I have uploaded files with both text and images:\n\n" \o combined \o
    "\n\nI have also uploaded " \o ToString(Len(imageParts)) \o
    " image(s). Please analyze everything carefully.\n\n"
  ELSE IF Trim(combined) # "" THEN
    "I have uploaded the following files with extracted text:\n\n" \o combined \o "\n\n"
  ELSE ""

PromptText(combined, imageParts, question) ==
  PromptFraming(combined, imageParts) \o "Question: " \o question \o PromptInstructions

\* GeminiParts with the text part after the images.
GeminiParts_ImagesFirst(promptText, imageParts) ==
  [i \in 1..Len(imageParts) |->
     [inlineData |-> [mimeType |-> imageParts[i].mimeType,
                      data |-> imageParts[i].data]]]
  \o <<[text |-> promptText]>>

GeminiParts(promptText, imageParts) ==
  <<[text |-> promptText]>> \o
  [i \in 1..Len(imageParts) |->
     [inlineData |-> [mimeType |-> imageParts[i].mimeType,
                      data |-> imageParts[i].data]]]

\* data?.candidates?.[0]?.content?.parts?.[0]?.text || null, where candidates
\* lists, for each candidate, the text (or undefined) of each of its parts.
TextResp(candidates) ==
  IF Len(candidates) > 0 /\ Len(candidates[1]) > 0 /\ Truthy(candidates[1][1])
  THEN candidates[1][1]
  ELSE Null

-----------------------------------------------------------------------------
(* askWithFiles as a state machine: the request, the environment, the      *)
(* handler's locals (inv) and the HTTP responses sent (res).               *)

Questions == {Undefined, Str("what does this say?")}

GeminiKeys == {Undefined, Str(""), Str("AIza-key")}

\* What axios.post does: it rejects (transport error, non-2xx status), or it
\* resolves with the candidates of the reply.
GeminiRejects(msg) == [threw |-> TRUE, message |-> msg, candidates |-> <<>>]
GeminiResolves(candidates) == [threw |-> FALSE, message |-> "", candidates |-> candidates]

GeminiReplies ==
  { GeminiRejects("Request failed with status code 429"),
    GeminiRejects("connect ECONNREFUSED"),
    GeminiResolves(<<>>),
    GeminiResolves(<< <<Undefined>> >>),
    GeminiResolves(<< <<Str("It says hello.")>> >>),
    GeminiResolves(<< <<Str("First part"), Str("second part")>>, <<Str("Other candidate")>> >>) }

generationConfig ==
  [temperature |-> "0.4", topK |-> 32, topP |-> 1, maxOutputTokens |-> 8192]

RECURSIVE SeqsUpTo(_, _)
SeqsUpTo(S, n) ==
  IF n = 0 THEN {<<>>}
  ELSE LET shorter == SeqsUpTo(S, n - 1)
       IN shorter \cup {Append(q, x) : q \in {t \in shorter : Len(t) = n - 1}, x \in S}

\* The handler's locals before its first statement.
InvIdle ==
  [pc |-> "idle", i |-> 0, parts |-> <<>>, imageParts |-> <<>>,
   pdfParsed |-> <<>>, combined |-> "", response |-> Response(<<>>, ""),
   request |-> <<>>, geminiCalls |-> 0, reply |-> <<>>]

InvStart == [InvIdle EXCEPT !.pc = "start"]

Send(status, body) == Append(res, [status |-> status, body |-> body])

\* Failed that keeps the message to itself.
Failed_WithoutDetails(message) ==
  Send(500, [error |-> "Failed to process files", details |-> "Internal error"])

\* The handler's own catch: 500 with the message of what was thrown.
Failed(message) ==
  Send(500, [error |-> "Failed to process files", details |-> message])

\* files = req.files || []; question = req.body.question || ""
Question == IF Truthy(req.question) THEN req.question[2] ELSE ""

\* Entry: an empty upload is refused with 400.
Start ==
  /\ inv.pc = "start"
  /\ IF Len(req.files) = 0
     THEN /\ res' = Send(400, [error |-> "No files uploaded"])
          /\ inv' = [inv EXCEPT !.pc = "done"]
     ELSE /\ inv' = [inv EXCEPT !.pc = "loop"]
          /\ UNCHANGED res
  /\ UNCHANGED <<req, env, ocr, calls, auth>>

\* ProcessFile that puts what the iteration pushed in front of imageParts.
ProcessFile_Unshift ==
  /\ inv.pc = "loop"
  /\ inv.i < Len(req.files)
  /\ LET r == IterationOf[req.files[inv.i + 1]]
     IN /\ inv' = [inv EXCEPT
                     !.i = inv.i + 1,
                     !.parts = Append(inv.parts, r.part),
                     !.imageParts = r.pushed \o inv.imageParts,
                     !.pdfParsed = IF r.parsed
                                   THEN Append(inv.pdfParsed, r.part.name)
                                   ELSE inv.pdfParsed]
        /\ UNCHANGED res
  /\ UNCHANGED <<req, env, ocr, calls, auth>>

\* One iteration of for (const f of files).
ProcessFile ==
  /\ inv.pc = "loop"
  /\ inv.i < Len(req.files)
  /\ LET r == IterationOf[req.files[inv.i + 1]]
     IN IF r.escaped
        THEN /\ res' = Failed(r.message)
             /\ inv' = [inv EXCEPT !.pc = "done"]
        ELSE /\ inv' = [inv EXCEPT
                          !.i = inv.i + 1,
                          !.parts = Append(inv.parts, r.part),
                          !.imageParts = inv.imageParts \o r.pushed,
                          !.pdfParsed = IF r.parsed
                                        THEN Append(inv.pdfParsed, r.part.name)
                                        ELSE inv.pdfParsed]
             /\ UNCHANGED res
  /\ UNCHANGED <<req, env, ocr, calls, auth>>

\* AnswerMode with the content test made before the key test.
AnswerMode_ContentFirst(geminiKey, combined, imageParts) ==
  IF ~HasContent(combined, imageParts) THEN "no-content"
  ELSE IF ~Truthy(geminiKey) THEN "extraction-only"
  ELSE "call"

\* What follows the aggregation: without a key the extraction-only response,
\* with a key and nothing to send the no-content response, else the call.
AnswerMode(geminiKey, combined, imageParts) ==
  IF ~Truthy(geminiKey) THEN "extraction-only"
  ELSE IF ~HasContent(combined, imageParts) THEN "no-content"
  ELSE "call"

\* Aggregate without the return after the extraction-only response: the
\* handler goes on to call the answering service.
Aggregate_FallsThrough ==
  /\ inv.pc = "loop"
  /\ inv.i = Len(req.files)
  /\ LET combined == Combined(inv.parts)
         response == Response(inv.parts, combined)
         mode == AnswerMode(env.GEMINI_API_KEY, combined, inv.imageParts)
     IN IF mode = "no-content"
        THEN /\ res' = Send(200, NoContentResponse(response, inv.parts))
             /\ inv' = [inv EXCEPT !.pc = "done", !.combined = combined,
                                   !.response = NoContentResponse(response, inv.parts)]
        ELSE /\ inv' = [inv EXCEPT
                          !.pc = "calling", !.combined = combined,
                          !.response = response,
                          !.request = GeminiParts(PromptText(combined, inv.imageParts, Question),
                                                  inv.imageParts),
                          !.geminiCalls = inv.geminiCalls + 1]
             /\ res' = IF mode = "extraction-only" THEN Send(200, response) ELSE res
  /\ UNCHANGED <<req, env, ocr, calls, auth>>

\* After the loop: the aggregated text and the response object; then the
\* response is sent, or the answering service is called.
Aggregate ==
  /\ inv.pc = "loop"
  /\ inv.i = Len(req.files)
  /\ LET combined == Combined(inv.parts)
         response == Response(inv.parts, combined)
         mode == AnswerMode(env.GEMINI_API_KEY, combined, inv.imageParts)
     IN IF mode = "extraction-only"
        THEN /\ res' = Send(200, response)
             /\ inv' = [inv EXCEPT !.pc = "done", !.combined = combined,
                                   !.response = response]
        ELSE IF mode = "no-content"
        THEN /\ res' = Send(200, NoContentResponse(response, inv.parts))
             /\ inv' = [inv EXCEPT !.pc = "done", !.combined = combined,
                                   !.response = NoContentResponse(response, inv.parts)]
        ELSE /\ inv' = [inv EXCEPT
                          !.pc = "calling", !.combined = combined,
                          !.response = response,
                          !.request = GeminiParts(PromptText(combined, inv.imageParts, Question),
                                                  inv.imageParts),
                          !.geminiCalls = inv.geminiCalls + 1]
             /\ UNCHANGED res
  /\ UNCHANGED <<req, env, ocr, calls, auth>>

\* GeminiSettles that calls the service a second time after a rejection.
GeminiSettles_Retry ==
  /\ inv.pc = "calling"
  /\ \E reply \in GeminiReplies :
       IF reply.threw /\ inv.geminiCalls < 2
       THEN /\ inv' = [inv EXCEPT !.geminiCalls = inv.geminiCalls + 1]
            /\ UNCHANGED res
       ELSE IF reply.threw
       THEN /\ res' = Failed(reply.message)
            /\ inv' = [inv EXCEPT !.pc = "done", !.reply = <<reply>>]
       ELSE LET response == [inv.response EXCEPT !.answer = TextResp(reply.candidates)]
            IN /\ res' = Send(200, response)
               /\ inv' = [inv EXCEPT !.pc = "done", !.response = response,
                                     !.reply = <<reply>>]
  /\ UNCHANGED <<req, env, ocr, calls, auth>>

\* await axios.post(...) settles: a rejection goes to the handler's catch, a
\* reply gives the answer (null when it has no text). inv.reply keeps how the
\* call settled.
GeminiSettles ==
  /\ inv.pc = "calling"
  /\ \E reply \in GeminiReplies :
       IF reply.threw
       THEN /\ res' = Failed(reply.message)
            /\ inv' = [inv EXCEPT !.pc = "done", !.reply = <<reply>>]
       ELSE LET response == [inv.response EXCEPT !.answer = TextResp(reply.candidates)]
            IN /\ res' = Send(200, response)
               /\ inv' = [inv EXCEPT !.pc = "done", !.response = response,
                                     !.reply = <<reply>>]
  /\ UNCHANGED <<req, env, ocr, calls, auth>>

-----------------------------------------------------------------------------
(* The OCR fallback chain: extractText and tesseractOcr. *)

Arr(seq) == <<"array", seq>>
IsArr(v) == v[1] = "array"

\* An element of ParsedResults: null, or an object with its ParsedText.
Page(parsedText) == <<"object", parsedText>>
IsObj(v) == v[1] = "object"

\* What the hosted service does: fetch rejects (transport error), res.json()
\* rejects (the body is not JSON), or the body parses to data.
HostedRejects == [kind |-> "rejects", isNull |-> TRUE,
                  ParsedResults |-> Undefined, ErrorMessage |-> Undefined]
HostedNotJson == [kind |-> "notjson", isNull |-> TRUE,
                  ParsedResults |-> Undefined, ErrorMessage |-> Undefined]
HostedNull == [kind |-> "json", isNull |-> TRUE,
               ParsedResults |-> Undefined, ErrorMessage |-> Undefined]
HostedData(parsedResults, errorMessage) ==
  [kind |-> "json", isNull |-> FALSE,
   ParsedResults |-> parsedResults, ErrorMessage |-> errorMessage]

PageSet ==
  {Null, Page(Undefined), Page(Str("")), Page(Str(" \n")),
   Page(Str("Hello")), Page(Str("page two"))}

ErrorMessages == {Undefined, Str("E101: Timed out waiting for results")}

HostedBehaviours ==
  {HostedRejects, HostedNotJson, HostedNull}
  \cup {HostedData(Undefined, e) : e \in ErrorMessages}
  \cup {HostedData(Arr(ps), e) : ps \in SeqsUpTo(PageSet, MaxPages), e \in ErrorMessages}

\* What the local engine does: require / recognize throws, or recognize
\* resolves with data.text.
LocalThrows(msg) == [threw |-> TRUE, message |-> msg, text |-> Undefined]
LocalResolves(text) == [threw |-> FALSE, message |-> "", text |-> text]

LocalBehaviours ==
  {LocalThrows("Cannot find module 'tesseract.js'"), LocalResolves(Undefined),
   LocalResolves(Str("")), LocalResolves(Str("local words"))}

OcrKeys == {Undefined, Str(""), Str("K81234567")}

\* p.ParsedText of each page, joined by "\n": join writes undefined and null as "".
RECURSIVE ParsedTexts(_)
ParsedTexts(pages) ==
  IF Len(pages) = 0 THEN <<>>
  ELSE <<IF IsStr(pages[1][2]) THEN pages[1][2][2] ELSE "">> \o ParsedTexts(Tail(pages))

\* JoinPages with a space for the newline.
JoinPages_Space(pages) == Join(ParsedTexts(pages), " ")

\* data.ParsedResults.map((p) => p.ParsedText).join("\n")
JoinPages(pages) == Join(ParsedTexts(pages), "\n")

\* The outcome of the try block of extractText once fetch has settled: it
\* returns the hosted text, or goes on to tesseractOcr from the try block
\* ("try") or from the catch block ("catch").
HostedReturn(text) == [returned |-> TRUE, text |-> text, site |-> "none"]
HostedFallback(site) == [returned |-> FALSE, text |-> "", site |-> site]

AfterFetch(hosted) ==
  IF hosted.kind # "json" THEN HostedFallback("catch")
  ELSE IF ~hosted.isNull /\ IsArr(hosted.ParsedResults)
          /\ Len(hosted.ParsedResults[2]) > 0
          /\ IsObj(hosted.ParsedResults[2][1])
  THEN LET pages == hosted.ParsedResults[2]
       IN IF \E k \in 1..Len(pages) : ~IsObj(pages[k])
          THEN HostedFallback("catch")
          ELSE LET text == JoinPages(pages)
               IN IF text # "" /\ Len(Trim(text)) > 0
                  THEN HostedReturn(text)
                  ELSE HostedFallback("try")
  ELSE HostedFallback("try")

\* tesseractOcr: its try block, then its catch block.
TesseractTry(local) ==
  IF local.threw THEN [threw |-> TRUE, message |-> local.message, value |-> ""]
  ELSE [threw |-> FALSE, message |-> "",
        value |-> IF Truthy(local.text) THEN local.text[2] ELSE ""]

\* TesseractCatch that lets the error through.
TesseractCatch_Rethrow(t) == t

TesseractCatch(t) ==
  IF t.threw THEN [threw |-> FALSE, message |-> "", value |-> ""] ELSE t

tesseractOcr(local) == TesseractCatch(TesseractTry(local))

OcrIdle ==
  [pc |-> "idle", hosted |-> HostedNull, local |-> LocalResolves(Undefined),
   site |-> "none", result |-> Undefined, raised |-> FALSE, events |-> <<>>]

\* OcrStart without the key test: the hosted service is always called.
OcrStart_NoKeyTest ==
  /\ ocr.pc = "start"
  /\ ocr' = [ocr EXCEPT !.pc = "fetch",
                        !.events = Append(ocr.events, "hosted-call")]
  /\ UNCHANGED <<req, env, inv, res, calls, auth>>

\* Entry of extractText: without a key the hosted service is skipped.
OcrStart ==
  /\ ocr.pc = "start"
  /\ IF ~Truthy(env.OCR_SPACE_API_KEY)
     THEN ocr' = [ocr EXCEPT !.pc = "local", !.site = "nokey"]
     ELSE ocr' = [ocr EXCEPT !.pc = "fetch",
                             !.events = Append(ocr.events, "hosted-call")]
  /\ UNCHANGED <<req, env, inv, res, calls, auth>>

\* await fetch / await res.json() settle.
OcrHostedSettles ==
  /\ ocr.pc = "fetch"
  /\ LET o == AfterFetch(ocr.hosted)
         ev == Append(ocr.events, "hosted-end")
     IN IF o.returned
        THEN ocr' = [ocr EXCEPT !.pc = "done", !.result = Str(o.text), !.events = ev]
        ELSE ocr' = [ocr EXCEPT !.pc = "local", !.site = o.site, !.events = ev]
  /\ UNCHANGED <<req, env, inv, res, calls, auth>>

\* tesseractOcr(buffer) is called from ocr.site.
OcrLocalCall ==
  /\ ocr.pc = "local"
  /\ ocr' = [ocr EXCEPT !.pc = "recognizing",
                        !.events = Append(ocr.events, "local-call")]
  /\ UNCHANGED <<req, env, inv, res, calls, auth>>

\* await tesseractOcr(buffer) settles: its value is returned; had it thrown
\* inside the try block, the catch block would call it again.
OcrLocalSettles ==
  /\ ocr.pc = "recognizing"
  /\ LET t == tesseractOcr(ocr.local)
         ev == Append(ocr.events, "local-end")
     IN IF ~t.threw
        THEN ocr' = [ocr EXCEPT !.pc = "done", !.result = Str(t.value), !.events = ev]
        ELSE IF ocr.site = "try"
        THEN ocr' = [ocr EXCEPT !.pc = "local", !.site = "catch", !.events = ev]
        ELSE ocr' = [ocr EXCEPT !.pc = "done", !.raised = TRUE, !.events = ev]
  /\ UNCHANGED <<req, env, inv, res, calls, auth>>

-----------------------------------------------------------------------------
(* controllers/auth.js: the handlers that share the users collection, the  *)
(* refresh-token collection and the in-memory otpStore. Requests run       *)
(* concurrently; a step is one database operation with the synchronous     *)
(* code before it, or one continuation that touches otpStore.              *)

ReqIds == {"r1", "r2", "r3"}

\* What clients put in the email field.
RawEmails == {"ann@x.io", " Ann@X.io ", "bob@x.io"}

\* String(email).toLowerCase().trim(); the schema's lowercase and trim
\* setters do the same to what is stored.
Normalize(email) == Trim(ToLowerCase(email))

NormalEmails == {Normalize(e) : e \in RawEmails}

NormalizedOf == [e \in RawEmails \cup NormalEmails |-> Normalize(e)]

Reply(status, body) == <<[status |-> status, body |-> body]>>

\* res.status(code).json({ error })
ErrorReply(status, error) == Reply(status, [error |-> error])

\* next(err): the error goes to the application's error handler, which
\* answers in place of the handler.
NextErr == Reply(500, [error |-> "next(err)"])

\* A request before it is received.
ReqIdle ==
  [kind |-> "none", pc |-> "idle", email |-> Undefined, name |-> Undefined,
   password |-> Undefined, code |-> Undefined, cookie |-> Undefined,
   credential |-> Undefined, normalized |-> "", existing |-> FALSE,
   stored |-> <<>>, user |-> <<>>, order |-> 0, after |-> {}, res |-> <<>>]

AuthIdle ==
  [users |-> <<>>, tokens |-> {}, otpStore |-> [e \in NormalEmails |-> <<>>],
   removed |-> {}, reqs |-> [r \in ReqIds |-> ReqIdle], started |-> 0,
   GOOGLE_CLIENT_ID |-> Undefined, now |-> 0, ticks |-> 0,
   chats |-> {}, messages |-> {}]

\* The handler of a request starts: the order of arrival is kept, and the
\* requests that were answered before.
Arrive(me) ==
  [me EXCEPT !.order = auth.started + 1,
             !.after = {q \in ReqIds : auth.reqs[q].pc = "done"}]

\* The handler of request r answers and ends.
Answer(me, reply) == [me EXCEPT !.pc = "done", !.res = reply]

Succeeded(r) ==
  /\ auth.reqs[r].pc = "done"
  /\ auth.reqs[r].res[1].status = 200

\* User.findOne({ email })
UserWithEmail(email) == \E k \in 1..Len(auth.users) : auth.users[k].email = email

\* User.findById(id)
UserWithId(id) == \E k \in 1..Len(auth.users) : auth.users[k].id = id

\* createRefreshValue(): 48 random bytes, a value no client has presented.
NewRefreshOf == [r1 |-> "new-1", r2 |-> "new-2", r3 |-> "new-3"]

RefreshDoc(token, user, expired) == [token |-> token, user |-> user, expired |-> expired]

-----------------------------------------------------------------------------
(* POST /auth/refresh *)

\* const refreshValue = req.cookies[REFRESH_COOKIE_NAME];
\* stored = await RefreshToken.findOne({ token: refreshValue })
RefreshFindOne(r) ==
  /\ auth.reqs[r].kind = "refresh"
  /\ auth.reqs[r].pc = "start"
  /\ LET me == Arrive(auth.reqs[r])
     IN auth' = [auth EXCEPT
          !.started = auth.started + 1,
          !.reqs[r] =
             IF ~Truthy(me.cookie)
             THEN Answer(me, ErrorReply(401, "missing refresh token"))
             ELSE [me EXCEPT !.pc = "found",
                             !.stored = IF \E d \in auth.tokens : d.token = me.cookie[2]
                                        THEN <<CHOOSE d \in auth.tokens : d.token = me.cookie[2]>>
                                        ELSE <<>>]]
  /\ UNCHANGED <<req, env, inv, res, ocr, calls>>

\* RefreshFindUser without the test of expiresAt.
RefreshFindUser_NoExpiryTest(r) ==
  /\ auth.reqs[r].kind = "refresh"
  /\ auth.reqs[r].pc = "found"
  /\ LET me == auth.reqs[r]
     IN IF me.stored = <<>>
        THEN auth' = [auth EXCEPT !.reqs[r] = Answer(me, ErrorReply(401, "invalid refresh token"))]
        ELSE auth' = [auth EXCEPT
               !.reqs[r] = [me EXCEPT !.pc = "user",
                                      !.user = IF UserWithId(me.stored[1].user)
                                               THEN <<me.stored[1].user>> ELSE <<>>]]
  /\ UNCHANGED <<req, env, inv, res, ocr, calls>>

\* After findOne: unknown value, expired value (deleted, 401), else
\* user = await User.findById(stored.user). A failed deleteOne is swallowed.
RefreshFindUser(r) ==
  /\ auth.reqs[r].kind = "refresh"
  /\ auth.reqs[r].pc = "found"
  /\ LET me == auth.reqs[r]
     IN IF me.stored = <<>>
        THEN auth' = [auth EXCEPT !.reqs[r] = Answer(me, ErrorReply(401, "invalid refresh token"))]
        ELSE IF me.stored[1].expired
        THEN \E deleted \in BOOLEAN :
               auth' = [auth EXCEPT
                 !.tokens = IF deleted THEN auth.tokens \ {me.stored[1]} ELSE auth.tokens,
                 !.reqs[r] = Answer(me, ErrorReply(401, "refresh token expired"))]
        ELSE auth' = [auth EXCEPT
               !.reqs[r] = [me EXCEPT !.pc = "user",
                                      !.user = IF UserWithId(me.stored[1].user)
                                               THEN <<me.stored[1].user>> ELSE <<>>]]
  /\ UNCHANGED <<req, env, inv, res, ocr, calls>>

\* After findById: no user, 401; else the old value is deleted:
\* await RefreshToken.deleteOne({ _id: stored._id }).catch(() => {}).
\* Neither a rejection nor a deletion of nothing is noticed.
RefreshRotate(r) ==
  /\ auth.reqs[r].kind = "refresh"
  /\ auth.reqs[r].pc = "user"
  /\ LET me == auth.reqs[r]
     IN IF me.user = <<>>
        THEN auth' = [auth EXCEPT !.reqs[r] = Answer(me, ErrorReply(401, "user not found"))]
        ELSE \E deleted \in BOOLEAN :
               auth' = [auth EXCEPT
                 !.tokens = IF deleted THEN auth.tokens \ {me.stored[1]} ELSE auth.tokens,
                 !.reqs[r] = [me EXCEPT !.pc = "create"]]
  /\ UNCHANGED <<req, env, inv, res, ocr, calls>>

\* await RefreshToken.create({ token: newRefresh, ... }); res.json({ ok: true })
RefreshCreate(r) ==
  /\ auth.reqs[r].kind = "refresh"
  /\ auth.reqs[r].pc = "create"
  /\ LET me == auth.reqs[r]
     IN \E created \in BOOLEAN :
          auth' = [auth EXCEPT
            !.tokens = IF created
                       THEN auth.tokens \cup {RefreshDoc(NewRefreshOf[r], me.user[1], FALSE)}
                       ELSE auth.tokens,
            !.reqs[r] = IF created
                        THEN Answer(me, Reply(200, [ok |-> TRUE, refresh |-> NewRefreshOf[r]]))
                        ELSE Answer(me, NextErr)]
  /\ UNCHANGED <<req, env, inv, res, ocr, calls>>

SeedUser == [id |-> "u0", email |-> "ann@x.io", via |-> "seed"]

\* The value a client holds, a value the server never issued, no cookie.
RefreshCookies == {Undefined, Str("old"), Str("forged")}

-----------------------------------------------------------------------------
(* POST /auth/send-otp and POST /auth/verify-otp, and the otpStore. *)

\* Math.floor(100000 + Math.random() * 900000).toString()
OtpOf == [r1 |-> "111111", r2 |-> "222222", r3 |-> "333333"]

\* What clients put in the otp field.
OtpCodes == {Undefined, Str(" 111111 "), Str("000000"), Num(111111)}

\* otpCode.trim() of the string codes.
TrimmedCode == [c \in {x \in OtpCodes : IsStr(x)} |-> Trim(c[2])]

\* { otp, expiresAt, userData: { name, password } }; by is the request that
\* stored the entry.
OtpEntry(otp, expiresAt, name, password, by) ==
  [otp |-> otp, expiresAt |-> expiresAt, name |-> name, password |-> password, by |-> by]

\* 10 * 60 * 1000: an entry expires ten minutes after it is stored.
OtpTtlMs == 600000

\* Date.now() > storedData.expiresAt, the test of verifyOtp.
VerifyExpired(entry) == auth.now > entry.expiresAt

\* CleanupExpired that also takes the entry that expires now.
CleanupExpired_Inclusive(entry) == entry.expiresAt <= auth.now

\* data.expiresAt < now, the test of the cleanup.
CleanupExpired(entry) == entry.expiresAt < auth.now

\* An entry leaves the store: which request's entry, why, and who removed it.
Removal(entries, cause, actor) ==
  {[by |-> entries[k].by, cause |-> cause, actor |-> actor] : k \in 1..Len(entries)}

\* const normalized = ...; existing = await User.findOne({ email: normalized })
\* (sendOtp, verifyOtp, register: the same two lines)
FindExisting(me) ==
  [me EXCEPT !.pc = "found",
             !.normalized = NormalizedOf[me.email[2]],
             !.existing = UserWithEmail(NormalizedOf[me.email[2]])]

SendOtpFindOne(r) ==
  /\ auth.reqs[r].kind = "sendOtp"
  /\ auth.reqs[r].pc = "start"
  /\ LET me == Arrive(auth.reqs[r])
     IN auth' = [auth EXCEPT
          !.started = auth.started + 1,
          !.reqs[r] = IF ~Truthy(me.email)
                      THEN Answer(me, ErrorReply(400, "Email required"))
                      ELSE FindExisting(me)]
  /\ UNCHANGED <<req, env, inv, res, ocr, calls>>

\* After findOne: 409 for a known email; else the code is generated and
\* stored under the normalized email, replacing what was there, and the
\* mail is sent.
SendOtpSet(r) ==
  /\ auth.reqs[r].kind = "sendOtp"
  /\ auth.reqs[r].pc = "found"
  /\ LET me == auth.reqs[r]
     IN IF me.existing
        THEN auth' = [auth EXCEPT
               !.reqs[r] = Answer(me, ErrorReply(409, "Email already in database"))]
        ELSE auth' = [auth EXCEPT
               !.otpStore[me.normalized] =
                  <<OtpEntry(OtpOf[r], auth.now + OtpTtlMs, me.name, me.password, r)>>,
               !.removed = auth.removed \cup
                             Removal(auth.otpStore[me.normalized], "overwritten", r),
               !.reqs[r] = [me EXCEPT !.pc = "mailing"]]
  /\ UNCHANGED <<req, env, inv, res, ocr, calls>>

\* await sendOTPEmail(email, otp) settles: on failure
\* otpStore.delete(normalized) removes what the store holds for the email.
SendOtpMailSettles(r) ==
  /\ auth.reqs[r].kind = "sendOtp"
  /\ auth.reqs[r].pc = "mailing"
  /\ LET me == auth.reqs[r]
     IN \E success \in BOOLEAN :
          IF success
          THEN auth' = [auth EXCEPT
                 !.reqs[r] = Answer(me, Reply(200, [ok |-> TRUE,
                                 message |-> "Verification code sent to your email"]))]
          ELSE auth' = [auth EXCEPT
                 !.otpStore[me.normalized] = <<>>,
                 !.removed = auth.removed \cup
                               Removal(auth.otpStore[me.normalized], "send-failed", r),
                 !.reqs[r] = Answer(me, ErrorReply(500, "Failed to send verification email"))]
  /\ UNCHANGED <<req, env, inv, res, ocr, calls>>

\* How often the clock is advanced in a run.
MaxTicks == 2

\* Date.now() moves on, by a millisecond or by ten minutes.
Tick ==
  /\ auth.ticks < MaxTicks
  /\ \E d \in {1, OtpTtlMs} :
       auth' = [auth EXCEPT !.now = auth.now + d, !.ticks = auth.ticks + 1]
  /\ UNCHANGED <<req, env, inv, res, ocr, calls>>

\* The setInterval callback: expired entries are deleted.
OtpCleanup ==
  /\ \E e \in NormalEmails : auth.otpStore[e] # <<>> /\ CleanupExpired(auth.otpStore[e][1])
  /\ LET expired == {e \in NormalEmails :
                       auth.otpStore[e] # <<>> /\ CleanupExpired(auth.otpStore[e][1])}
     IN auth' = [auth EXCEPT
          !.otpStore = [e \in NormalEmails |-> IF e \in expired THEN <<>> ELSE auth.otpStore[e]],
          !.removed = auth.removed \cup
                        UNION {Removal(auth.otpStore[e], "expired", "cleanup") : e \in expired}]
  /\ UNCHANGED <<req, env, inv, res, ocr, calls>>

VerifyOtpFindOne(r) ==
  /\ auth.reqs[r].kind = "verifyOtp"
  /\ auth.reqs[r].pc = "start"
  /\ LET me == Arrive(auth.reqs[r])
     IN auth' = [auth EXCEPT
          !.started = auth.started + 1,
          !.reqs[r] = IF ~Truthy(me.email) \/ ~Present(me.code)
                      THEN Answer(me, ErrorReply(400, "Email and OTP required"))
                      ELSE FindExisting(me)]
  /\ UNCHANGED <<req, env, inv, res, ocr, calls>>

\* After findOne: 409 for a known email; then the entry of the store is
\* looked up, its expiry and its code are tested, and with complete signup
\* data the password is hashed (await bcrypt.hash). otpCode.trim() throws
\* a TypeError for a code that is a number, which the catch answers 500.
VerifyOtpCheck(r) ==
  /\ auth.reqs[r].kind = "verifyOtp"
  /\ auth.reqs[r].pc = "found"
  /\ LET me == auth.reqs[r]
         storedData == auth.otpStore[me.normalized]
     IN IF me.existing
        THEN auth' = [auth EXCEPT
               !.reqs[r] = Answer(me, ErrorReply(409, "Email already in use"))]
        ELSE IF storedData = <<>>
        THEN auth' = [auth EXCEPT
               !.reqs[r] = Answer(me, ErrorReply(400,
                              "OTP expired or not found. Please request a new code."))]
        ELSE IF VerifyExpired(storedData[1])
        THEN auth' = [auth EXCEPT
               !.otpStore[me.normalized] = <<>>,
               !.removed = auth.removed \cup Removal(storedData, "expired", r),
               !.reqs[r] = Answer(me, ErrorReply(400, "OTP expired. Please request a new code."))]
        ELSE IF ~IsStr(me.code)
        THEN auth' = [auth EXCEPT
               !.reqs[r] = Answer(me, ErrorReply(500, "Internal server error"))]
        ELSE IF storedData[1].otp # TrimmedCode[me.code]
        THEN auth' = [auth EXCEPT
               !.reqs[r] = Answer(me, ErrorReply(400, "Invalid OTP code."))]
        ELSE IF Truthy(storedData[1].name) /\ Truthy(storedData[1].password)
        THEN auth' = [auth EXCEPT !.reqs[r] = [me EXCEPT !.pc = "hashed", !.stored = storedData]]
        ELSE auth' = [auth EXCEPT
               !.otpStore[me.normalized] = <<>>,
               !.removed = auth.removed \cup Removal(storedData, "consumed", r),
               !.reqs[r] = Answer(me, ErrorReply(400,
                              "Invalid signup data. Please start registration again."))]
  /\ UNCHANGED <<req, env, inv, res, ocr, calls>>

-----------------------------------------------------------------------------

(* User.create in verifyOtp, register and googleSignup. *)

\* CreateUserOutcomes without the unique index on email.
CreateUserOutcomes_NoUniqueIndex(email) == {"created", "rejected"}

\* await User.create({ email, ... }): the schema declares email unique, so
\* the collection's index rejects a document whose email is already there;
\* any write may also be rejected by the database.
CreateUserOutcomes(email) ==
  IF UserWithEmail(NormalizedOf[email]) THEN {"duplicate"} ELSE {"created", "rejected"}

\* The stored document: the schema lower-cases and trims the email; the
\* document's id is named after the request that created it.
UserDoc(r, email, via) == [id |-> r, email |-> NormalizedOf[email], via |-> via]

\* await RefreshToken.create({ token, user, expiresAt }) for a new user.
WithToken(created, r) ==
  IF created THEN auth.tokens \cup {RefreshDoc(NewRefreshOf[r], r, FALSE)} ELSE auth.tokens

\* verifyOtp: user = await User.create(...); what it throws is answered 500.
VerifyOtpCreateUser(r) ==
  /\ auth.reqs[r].kind = "verifyOtp"
  /\ auth.reqs[r].pc = "hashed"
  /\ LET me == auth.reqs[r]
     IN \E outcome \in CreateUserOutcomes(me.normalized) :
          IF outcome = "created"
          THEN auth' = [auth EXCEPT
                 !.users = Append(auth.users, UserDoc(r, me.normalized, "verifyOtp")),
                 !.reqs[r] = [me EXCEPT !.pc = "created", !.user = <<r>>]]
          ELSE auth' = [auth EXCEPT
                 !.reqs[r] = Answer(me, ErrorReply(500, "Internal server error"))]
  /\ UNCHANGED <<req, env, inv, res, ocr, calls>>

\* VerifyOtpConsume that leaves the entry in the store.
VerifyOtpConsume_Keep(r) ==
  /\ auth.reqs[r].kind = "verifyOtp"
  /\ auth.reqs[r].pc = "created"
  /\ auth' = [auth EXCEPT !.reqs[r] = [auth.reqs[r] EXCEPT !.pc = "token"]]
  /\ UNCHANGED <<req, env, inv, res, ocr, calls>>

\* verifyOtp after the user is created: otpStore.delete(normalized), the
\* welcome mail (not awaited), and the refresh token is about to be stored.
VerifyOtpConsume(r) ==
  /\ auth.reqs[r].kind = "verifyOtp"
  /\ auth.reqs[r].pc = "created"
  /\ LET me == auth.reqs[r]
     IN auth' = [auth EXCEPT
          !.otpStore[me.normalized] = <<>>,
          !.removed = auth.removed \cup
                        Removal(auth.otpStore[me.normalized], "consumed", r),
          !.reqs[r] = [me EXCEPT !.pc = "token"]]
  /\ UNCHANGED <<req, env, inv, res, ocr, calls>>

\* verifyOtp: await RefreshToken.create(...); res.json({ ok: true, user })
VerifyOtpCreateToken(r) ==
  /\ auth.reqs[r].kind = "verifyOtp"
  /\ auth.reqs[r].pc = "token"
  /\ LET me == auth.reqs[r]
     IN \E created \in BOOLEAN :
          auth' = [auth EXCEPT
            !.tokens = WithToken(created, r),
            !.reqs[r] = IF created
                        THEN Answer(me, Reply(200, [ok |-> TRUE, user |-> me.user[1]]))
                        ELSE Answer(me, ErrorReply(500, "Internal server error"))]
  /\ UNCHANGED <<req, env, inv, res, ocr, calls>>

-----------------------------------------------------------------------------
(* POST /auth/register *)

RegisterFindOne(r) ==
  /\ auth.reqs[r].kind = "register"
  /\ auth.reqs[r].pc = "start"
  /\ LET me == Arrive(auth.reqs[r])
     IN auth' = [auth EXCEPT
          !.started = auth.started + 1,
          !.reqs[r] = IF ~Truthy(me.name) \/ ~Truthy(me.email) \/ ~Truthy(me.password)
                      THEN Answer(me, ErrorReply(400, "name, email and password required"))
                      ELSE FindExisting(me)]
  /\ UNCHANGED <<req, env, inv, res, ocr, calls>>

\* After findOne: 409 for a known email; else the password is hashed and
\* user = await User.create(...); what it throws goes to next(err).
RegisterCreateUser(r) ==
  /\ auth.reqs[r].kind = "register"
  /\ auth.reqs[r].pc = "found"
  /\ LET me == auth.reqs[r]
     IN IF me.existing
        THEN auth' = [auth EXCEPT
               !.reqs[r] = Answer(me, ErrorReply(409, "email already in use"))]
        ELSE \E outcome \in CreateUserOutcomes(me.normalized) :
               IF outcome = "created"
               THEN auth' = [auth EXCEPT
                      !.users = Append(auth.users, UserDoc(r, me.normalized, "register")),
                      !.reqs[r] = [me EXCEPT !.pc = "created", !.user = <<r>>]]
               ELSE auth' = [auth EXCEPT !.reqs[r] = Answer(me, NextErr)]
  /\ UNCHANGED <<req, env, inv, res, ocr, calls>>

\* await RefreshToken.create(...); res.json({ ok: true, user, ... })
RegisterCreateToken(r) ==
  /\ auth.reqs[r].kind = "register"
  /\ auth.reqs[r].pc = "created"
  /\ LET me == auth.reqs[r]
     IN \E created \in BOOLEAN :
          auth' = [auth EXCEPT
            !.tokens = WithToken(created, r),
            !.reqs[r] = IF created
                        THEN Answer(me, Reply(200, [ok |-> TRUE, user |-> me.user[1]]))
                        ELSE Answer(me, NextErr)]
  /\ UNCHANGED <<req, env, inv, res, ocr, calls>>

-----------------------------------------------------------------------------
(* POST /auth/google-signup *)

\* What clients put in the credential field: nothing, an ID token Google
\* signed (its payload carries the email), anything else.
GoogleCredentials == {Undefined, Str("signed"), Str("forged")}

\* The credential and the server's client id are tested, the token is
\* verified (a rejection is answered 500), and
\* existingUser = await User.findOne({ email: normalized }).
GoogleVerify(r) ==
  /\ auth.reqs[r].kind = "googleSignup"
  /\ auth.reqs[r].pc = "start"
  /\ LET me == Arrive(auth.reqs[r])
     IN auth' = [auth EXCEPT
          !.started = auth.started + 1,
          !.reqs[r] =
             IF ~Truthy(me.credential)
             THEN Answer(me, ErrorReply(400, "Google credential required"))
             ELSE IF ~Truthy(auth.GOOGLE_CLIENT_ID)
             THEN Answer(me, ErrorReply(500, "Google OAuth not configured on server"))
             ELSE IF me.credential # Str("signed")
             THEN Answer(me, ErrorReply(500, "Failed to sign up with Google"))
             ELSE FindExisting(me)]
  /\ UNCHANGED <<req, env, inv, res, ocr, calls>>

\* After findOne: 409 for a known email; else user = await User.create(...);
\* what it throws is answered 500.
GoogleCreateUser(r) ==
  /\ auth.reqs[r].kind = "googleSignup"
  /\ auth.reqs[r].pc = "found"
  /\ LET me == auth.reqs[r]
     IN IF me.existing
        THEN auth' = [auth EXCEPT
               !.reqs[r] = Answer(me, Reply(409,
                              [error |-> "Email already in use. Please sign in instead.",
                               shouldLogin |-> TRUE]))]
        ELSE \E outcome \in CreateUserOutcomes(me.normalized) :
               IF outcome = "created"
               THEN auth' = [auth EXCEPT
                      !.users = Append(auth.users, UserDoc(r, me.normalized, "googleSignup")),
                      !.reqs[r] = [me EXCEPT !.pc = "created", !.user = <<r>>]]
               ELSE auth' = [auth EXCEPT
                      !.reqs[r] = Answer(me, ErrorReply(500, "Failed to sign up with Google"))]
  /\ UNCHANGED <<req, env, inv, res, ocr, calls>>

\* await RefreshToken.create(...); res.json({ ok: true, isNewUser: true, ... })
GoogleCreateToken(r) ==
  /\ auth.reqs[r].kind = "googleSignup"
  /\ auth.reqs[r].pc = "created"
  /\ LET me == auth.reqs[r]
     IN \E created \in BOOLEAN :
          auth' = [auth EXCEPT
            !.tokens = WithToken(created, r),
            !.reqs[r] = IF created
                        THEN Answer(me, Reply(200, [ok |-> TRUE, user |-> me.user[1]]))
                        ELSE Answer(me, ErrorReply(500, "Failed to sign up with Google"))]
  /\ UNCHANGED <<req, env, inv, res, ocr, calls>>

-----------------------------------------------------------------------------

(* POST /auth/login *)

\* The password whose hash the seeded user's passwordHash is.
SeedPassword == "pw-1"

\* await bcrypt.compare(password, user.passwordHash): the library rejects
\* data that is neither a string nor a Buffer; else it tells whether the
\* password is the one that was hashed.
BcryptCompare(password) ==
  IF ~IsStr(password) THEN "rejects"
  ELSE IF password[2] = SeedPassword THEN "match"
  ELSE "no-match"

\* email and password are tested, and
\* user = await User.findOne({ email: normalized })
LoginFindOne(r) ==
  /\ auth.reqs[r].kind = "login"
  /\ auth.reqs[r].pc = "start"
  /\ LET me == Arrive(auth.reqs[r])
     IN auth' = [auth EXCEPT
          !.started = auth.started + 1,
          !.reqs[r] = IF ~Present(me.email) \/ ~Present(me.password)
                      THEN Answer(me, ErrorReply(400, "email and password required"))
                      ELSE FindExisting(me)]
  /\ UNCHANGED <<req, env, inv, res, ocr, calls>>

\* After findOne: 401 without a user; else the password is compared: 401
\* when it differs, and what bcrypt.compare throws goes to next(err).
LoginCompare(r) ==
  /\ auth.reqs[r].kind = "login"
  /\ auth.reqs[r].pc = "found"
  /\ LET me == auth.reqs[r]
         ok == BcryptCompare(me.password)
     IN auth' = [auth EXCEPT
          !.reqs[r] =
             IF ~me.existing THEN Answer(me, ErrorReply(401, "invalid credentials"))
             ELSE IF ok = "rejects" THEN Answer(me, NextErr)
             ELSE IF ok = "no-match" THEN Answer(me, ErrorReply(401, "invalid credentials"))
             ELSE [me EXCEPT !.pc = "token"]]
  /\ UNCHANGED <<req, env, inv, res, ocr, calls>>

\* await RefreshToken.create(...); setAuthCookies; res.json({ ok: true, ... })
LoginCreateToken(r) ==
  /\ auth.reqs[r].kind = "login"
  /\ auth.reqs[r].pc = "token"
  /\ LET me == auth.reqs[r]
     IN \E created \in BOOLEAN :
          auth' = [auth EXCEPT
            !.tokens = IF created
                       THEN auth.tokens \cup {RefreshDoc(NewRefreshOf[r], SeedUser.id, FALSE)}
                       ELSE auth.tokens,
            !.reqs[r] = IF created
                        THEN Answer(me, Reply(200, [ok |-> TRUE, refresh |-> NewRefreshOf[r]]))
                        ELSE Answer(me, NextErr)]
  /\ UNCHANGED <<req, env, inv, res, ocr, calls>>

\* What clients put in the body of a login.
LoginBodies ==
  { [email |-> e, password |-> p] :
      e \in {Undefined, Str("ann@x.io"), Str(" Ann@X.io "), Str("bob@x.io")},
      p \in {Str("pw-1"), Str("guess"), Num(12345)} }

-----------------------------------------------------------------------------

(* DELETE /auth/account. req.user is set by the authentication middleware; *)
(* in the request record it is the field user.                             *)

\* Every await of deleteAccount is a database operation that may reject;
\* the catch answers 500.
DeleteFailed(me) == Answer(me, ErrorReply(500, "Failed to delete account"))

\* if (!req.user) 401; userChats = await Chat.find({ user: userId })
DeleteFindChats(r) ==
  /\ auth.reqs[r].kind = "deleteAccount"
  /\ auth.reqs[r].pc = "start"
  /\ LET me == Arrive(auth.reqs[r])
     IN \E found \in BOOLEAN :
          auth' = [auth EXCEPT
            !.started = auth.started + 1,
            !.reqs[r] =
               IF me.user = <<>> THEN Answer(me, ErrorReply(401, "Unauthenticated"))
               ELSE IF ~found THEN DeleteFailed(me)
               ELSE [me EXCEPT !.pc = "messages",
                               !.stored = <<{c.id : c \in {x \in auth.chats : x.user = me.user[1]}}>>]]
  /\ UNCHANGED <<req, env, inv, res, ocr, calls>>

\* await Message.deleteMany({ chat: { $in: chatIds } })
DeleteMessages(r) ==
  /\ auth.reqs[r].kind = "deleteAccount"
  /\ auth.reqs[r].pc = "messages"
  /\ LET me == auth.reqs[r]
     IN \E deleted \in BOOLEAN :
          auth' = [auth EXCEPT
            !.messages = IF deleted THEN {m \in auth.messages : m.chat \notin me.stored[1]}
                         ELSE auth.messages,
            !.reqs[r] = IF deleted THEN [me EXCEPT !.pc = "chats"] ELSE DeleteFailed(me)]
  /\ UNCHANGED <<req, env, inv, res, ocr, calls>>

\* await Chat.deleteMany({ user: userId })
DeleteChats(r) ==
  /\ auth.reqs[r].kind = "deleteAccount"
  /\ auth.reqs[r].pc = "chats"
  /\ LET me == auth.reqs[r]
     IN \E deleted \in BOOLEAN :
          auth' = [auth EXCEPT
            !.chats = IF deleted THEN {c \in auth.chats : c.user # me.user[1]} ELSE auth.chats,
            !.reqs[r] = IF deleted THEN [me EXCEPT !.pc = "tokens"] ELSE DeleteFailed(me)]
  /\ UNCHANGED <<req, env, inv, res, ocr, calls>>

\* await RefreshToken.deleteMany({ user: userId })
DeleteTokens(r) ==
  /\ auth.reqs[r].kind = "deleteAccount"
  /\ auth.reqs[r].pc = "tokens"
  /\ LET me == auth.reqs[r]
     IN \E deleted \in BOOLEAN :
          auth' = [auth EXCEPT
            !.tokens = IF deleted THEN {d \in auth.tokens : d.user # me.user[1]} ELSE auth.tokens,
            !.reqs[r] = IF deleted THEN [me EXCEPT !.pc = "user"] ELSE DeleteFailed(me)]
  /\ UNCHANGED <<req, env, inv, res, ocr, calls>>

\* await User.findByIdAndDelete(userId); the cookies are cleared;
\* res.json({ ok: true, message: "Account deleted successfully" })
DeleteUser(r) ==
  /\ auth.reqs[r].kind = "deleteAccount"
  /\ auth.reqs[r].pc = "user"
  /\ LET me == auth.reqs[r]
     IN \E deleted \in BOOLEAN :
          auth' = [auth EXCEPT
            !.users = IF deleted
                      THEN SelectSeq(auth.users, LAMBDA u : u.id # me.user[1])
                      ELSE auth.users,
            !.reqs[r] = IF deleted
                        THEN Answer(me, Reply(200, [ok |-> TRUE,
                                        message |-> "Account deleted successfully"]))
                        ELSE DeleteFailed(me)]
  /\ UNCHANGED <<req, env, inv, res, ocr, calls>>

-----------------------------------------------------------------------------

(* Two askWithFiles invocations in flight at once, interleaved at their    *)
(* await points. parts, imageParts, combined and response are declared     *)
(* inside the handler; the environment is all the invocations share.       *)

Invocations == {"first", "second"}

CallFileSet == {f \in FileSet : f.originalname \in {Str("a.pdf"), Str("p.JPG")}}

CallReplies ==
  { GeminiRejects("connect ECONNREFUSED"),
    GeminiResolves(<< <<Str("It says hello.")>> >>) }

CallIdle == [req |-> [files |-> <<>>, question |-> Undefined], inv |-> InvIdle, res |-> <<>>]

CallsIdle == [c \in Invocations |-> CallIdle]

CallQuestion(me) == IF Truthy(me.req.question) THEN me.req.question[2] ELSE ""

CallSend(me, status, body) == Append(me.res, [status |-> status, body |-> body])

CallSendFailed(me, message) ==
  CallSend(me, 500, [error |-> "Failed to process files", details |-> message])

\* Entry of invocation c.
CallStart(c) ==
  /\ calls[c].inv.pc = "start"
  /\ LET me == calls[c]
     IN calls' = [calls EXCEPT ![c] =
          IF Len(me.req.files) = 0
          THEN [me EXCEPT !.res = CallSend(me, 400, [error |-> "No files uploaded"]),
                          !.inv.pc = "done"]
          ELSE [me EXCEPT !.inv.pc = "loop"]]
  /\ UNCHANGED <<req, env, inv, res, ocr, auth>>

\* CallProcessFile with parts declared outside the handler: the record is
\* pushed to the array every invocation uses.
CallProcessFile_SharedParts(c) ==
  /\ calls[c].inv.pc = "loop"
  /\ calls[c].inv.i < Len(calls[c].req.files)
  /\ LET me == calls[c]
         r == IterationOf[me.req.files[me.inv.i + 1]]
     IN calls' = [d \in Invocations |->
          IF d = c
          THEN [me EXCEPT !.inv.i = me.inv.i + 1,
                          !.inv.parts = Append(me.inv.parts, r.part),
                          !.inv.imageParts = me.inv.imageParts \o r.pushed,
                          !.inv.pdfParsed = IF r.parsed
                                            THEN Append(me.inv.pdfParsed, r.part.name)
                                            ELSE me.inv.pdfParsed]
          ELSE [calls[d] EXCEPT !.inv.parts = Append(calls[d].inv.parts, r.part)]]
  /\ UNCHANGED <<req, env, inv, res, ocr, auth>>

\* One iteration of invocation c's loop; the other invocation may run
\* between two iterations (await extractTextFromPdf, await mammoth).
CallProcessFile(c) ==
  /\ calls[c].inv.pc = "loop"
  /\ calls[c].inv.i < Len(calls[c].req.files)
  /\ LET me == calls[c]
         r == IterationOf[me.req.files[me.inv.i + 1]]
     IN calls' = [calls EXCEPT ![c] =
          IF r.escaped
          THEN [me EXCEPT !.res = CallSendFailed(me, r.message), !.inv.pc = "done"]
          ELSE [me EXCEPT !.inv.i = me.inv.i + 1,
                          !.inv.parts = Append(me.inv.parts, r.part),
                          !.inv.imageParts = me.inv.imageParts \o r.pushed,
                          !.inv.pdfParsed = IF r.parsed
                                            THEN Append(me.inv.pdfParsed, r.part.name)
                                            ELSE me.inv.pdfParsed]]
  /\ UNCHANGED <<req, env, inv, res, ocr, auth>>

\* Invocation c after its loop.
CallAggregate(c) ==
  /\ calls[c].inv.pc = "loop"
  /\ calls[c].inv.i = Len(calls[c].req.files)
  /\ LET me == calls[c]
         combined == Combined(me.inv.parts)
         response == Response(me.inv.parts, combined)
         mode == AnswerMode(env.GEMINI_API_KEY, combined, me.inv.imageParts)
     IN calls' = [calls EXCEPT ![c] =
          IF mode = "extraction-only"
          THEN [me EXCEPT !.res = CallSend(me, 200, response),
                          !.inv.pc = "done", !.inv.combined = combined,
                          !.inv.response = response]
          ELSE IF mode = "no-content"
          THEN [me EXCEPT !.res = CallSend(me, 200, NoContentResponse(response, me.inv.parts)),
                          !.inv.pc = "done", !.inv.combined = combined,
                          !.inv.response = NoContentResponse(response, me.inv.parts)]
          ELSE [me EXCEPT !.inv.pc = "calling", !.inv.combined = combined,
                          !.inv.response = response,
                          !.inv.request =
                             GeminiParts(PromptText(combined, me.inv.imageParts, CallQuestion(me)),
                                         me.inv.imageParts),
                          !.inv.geminiCalls = me.inv.geminiCalls + 1]]
  /\ UNCHANGED <<req, env, inv, res, ocr, auth>>

\* Invocation c's await axios.post(...) settles.
CallGeminiSettles(c) ==
  /\ calls[c].inv.pc = "calling"
  /\ \E reply \in CallReplies :
       LET me == calls[c]
           response == [me.inv.response EXCEPT !.answer = TextResp(reply.candidates)]
       IN calls' = [calls EXCEPT ![c] =
            IF reply.threw
            THEN [me EXCEPT !.res = CallSendFailed(me, reply.message),
                            !.inv.pc = "done", !.inv.reply = <<reply>>]
            ELSE [me EXCEPT !.res = CallSend(me, 200, response),
                            !.inv.pc = "done", !.inv.response = response,
                            !.inv.reply = <<reply>>]]
  /\ UNCHANGED <<req, env, inv, res, ocr, auth>>

InitCalls ==
  /\ req = [files |-> <<>>, question |-> Undefined]
  /\ env \in [GEMINI_API_KEY : {Undefined, Str("AIza-key")}, OCR_SPACE_API_KEY : {Undefined}]
  /\ inv = InvIdle
  /\ res = <<>>
  /\ ocr = OcrIdle
  /\ calls \in [Invocations ->
                  [req : [files : SeqsUpTo(CallFileSet, MaxFiles), question : Questions],
                   inv : {InvStart}, res : {<<>>}]]
  /\ auth = AuthIdle

NextCalls ==
  \E c \in Invocations :
    CallStart(c) \/ CallProcessFile(c) \/ CallAggregate(c) \/ CallGeminiSettles(c)

SpecCalls == InitCalls /\ [][NextCalls]_vars

Init ==
  /\ req \in [files : SeqsUpTo(FileSet, MaxFiles), question : Questions]
  /\ env \in [GEMINI_API_KEY : GeminiKeys, OCR_SPACE_API_KEY : {Undefined}]
  /\ inv = InvStart
  /\ res = <<>>
  /\ ocr = OcrIdle
  /\ calls = CallsIdle
  /\ auth = AuthIdle

Next == Start \/ ProcessFile \/ Aggregate \/ GeminiSettles

Spec == Init /\ [][Next]_vars

-----------------------------------------------------------------------------
(* extractText on its own: every key, hosted behaviour and local behaviour. *)

-----------------------------------------------------------------------------
(* askWithFiles with progress: a synchronous stretch of the handler runs   *)
(* to its next await, and every awaited promise (pdf-parse, mammoth, the   *)
(* call to the answering service) settles, one way or the other.          *)

\* One upload for each way an iteration can end: text, a scanned pdf, an
\* extraction that throws, blank text, an image.
LiveFileSet ==
  {f \in FileSet : f.originalname \in
     {Str("a.pdf"), Str("scan.PDF"), Str("enc.pdf"), Str("blank.docx"), Str("p.JPG")}}

InitLive ==
  /\ req \in [files : SeqsUpTo(LiveFileSet, MaxFiles), question : Questions]
  /\ env \in [GEMINI_API_KEY : GeminiKeys, OCR_SPACE_API_KEY : {Undefined}]
  /\ inv = InvStart
  /\ res = <<>>
  /\ ocr = OcrIdle
  /\ calls = CallsIdle
  /\ auth = AuthIdle

SpecLive == InitLive /\ [][Next]_vars /\ WF_vars(Next)

InitOcr ==
  /\ req = [files |-> <<>>, question |-> Undefined]
  /\ env \in [GEMINI_API_KEY : {Undefined}, OCR_SPACE_API_KEY : OcrKeys]
  /\ inv = InvIdle
  /\ res = <<>>
  /\ ocr \in {[OcrIdle EXCEPT !.pc = "start", !.hosted = h, !.local = l] :
                h \in HostedBehaviours, l \in LocalBehaviours}
  /\ calls = CallsIdle
  /\ auth = AuthIdle

NextOcr == OcrStart \/ OcrHostedSettles \/ OcrLocalCall \/ OcrLocalSettles

SpecOcr == InitOcr /\ [][NextOcr]_vars

-----------------------------------------------------------------------------
(* askWithFiles on uploads of every image extension. *)

InitImages ==
  /\ req \in [files : SeqsUpTo(ImageFileSet, MaxFiles), question : Questions]
  /\ env \in [GEMINI_API_KEY : GeminiKeys, OCR_SPACE_API_KEY : {Undefined}]
  /\ inv = InvStart
  /\ res = <<>>
  /\ ocr = OcrIdle
  /\ calls = CallsIdle
  /\ auth = AuthIdle

SpecImages == InitImages /\ [][Next]_vars

-----------------------------------------------------------------------------
(* The handlers of controllers/auth.js under concurrent requests. *)

InitRefresh ==
  /\ req = [files |-> <<>>, question |-> Undefined]
  /\ env = [GEMINI_API_KEY |-> Undefined, OCR_SPACE_API_KEY |-> Undefined]
  /\ inv = InvIdle
  /\ res = <<>>
  /\ ocr = OcrIdle
  /\ calls = CallsIdle
  /\ \E users \in {<<>>, <<SeedUser>>}, expired \in BOOLEAN,
        cookies \in [ReqIds -> RefreshCookies] :
       auth = [AuthIdle EXCEPT
                 !.users = users,
                 !.tokens = {RefreshDoc("old", "u0", expired)},
                 !.reqs = [r \in ReqIds |->
                             [ReqIdle EXCEPT !.kind = "refresh", !.pc = "start",
                                             !.cookie = cookies[r]]]]

NextRefresh ==
  \E r \in ReqIds :
    RefreshFindOne(r) \/ RefreshFindUser(r) \/ RefreshRotate(r) \/ RefreshCreate(r)

SpecRefresh == InitRefresh /\ [][NextRefresh]_vars

\* A request as received: the fields of its body over those of ReqIdle.
NewRequest(kind, body) ==
  [f \in DOMAIN ReqIdle |->
     IF f = "kind" THEN kind
     ELSE IF f = "pc" THEN "start"
     ELSE IF f \in DOMAIN body THEN body[f]
     ELSE ReqIdle[f]]

SignupData == [name |-> Str("Ann"), password |-> Str("pw-1")]

NoSignupData == [name |-> Undefined, password |-> Undefined]

SendOtpBodies ==
  { [email |-> Undefined] @@ SignupData,
    [email |-> Str("ann@x.io")] @@ SignupData,
    [email |-> Str(" Ann@X.io ")] @@ SignupData,
    [email |-> Str("ann@x.io")] @@ NoSignupData }

VerifyOtpBodies ==
  { [email |-> Str(" Ann@X.io "), code |-> Str(" 111111 ")],
    [email |-> Str("ann@x.io"), code |-> Str("000000")],
    [email |-> Str("ann@x.io"), code |-> Undefined] }

RegisterBodies ==
  { [email |-> Undefined] @@ SignupData,
    [email |-> Str("ann@x.io")] @@ SignupData,
    [email |-> Str(" Ann@X.io ")] @@ SignupData,
    [email |-> Str("bob@x.io")] @@ SignupData }

\* email is the one in the payload of the signed token.
GoogleBodies ==
  { [credential |-> Undefined, email |-> Undefined],
    [credential |-> Str("signed"), email |-> Str(" Ann@X.io ")],
    [credential |-> Str("forged"), email |-> Str("ann@x.io")] }

\* Two sendOtp requests and one verifyOtp request, with time passing.
InitOtp ==
  /\ req = [files |-> <<>>, question |-> Undefined]
  /\ env = [GEMINI_API_KEY |-> Undefined, OCR_SPACE_API_KEY |-> Undefined]
  /\ inv = InvIdle
  /\ res = <<>>
  /\ ocr = OcrIdle
  /\ calls = CallsIdle
  /\ \E users \in {<<>>, <<SeedUser>>},
        b1 \in SendOtpBodies, b2 \in SendOtpBodies, b3 \in VerifyOtpBodies :
       auth = [AuthIdle EXCEPT
                 !.users = users,
                 !.reqs = [r1 |-> NewRequest("sendOtp", b1),
                           r2 |-> NewRequest("sendOtp", b2),
                           r3 |-> NewRequest("verifyOtp", b3)]]

NextOtp ==
  \/ \E r \in ReqIds :
       \/ SendOtpFindOne(r) \/ SendOtpSet(r) \/ SendOtpMailSettles(r)
       \/ VerifyOtpFindOne(r) \/ VerifyOtpCheck(r) \/ VerifyOtpCreateUser(r)
       \/ VerifyOtpConsume(r) \/ VerifyOtpCreateToken(r)
  \/ Tick
  \/ OtpCleanup

SpecOtp == InitOtp /\ [][NextOtp]_vars

\* Two sign-up requests of any of the three kinds; the store may hold the
\* entry of an earlier sendOtp.
SignupRequests ==
  {NewRequest("register", b) : b \in RegisterBodies}
  \cup {NewRequest("verifyOtp", b) : b \in VerifyOtpBodies}
  \cup {NewRequest("googleSignup", b) : b \in GoogleBodies}

EarlierEntries ==
  { <<>>,
    <<OtpEntry("111111", OtpTtlMs, Str("Ann"), Str("pw-1"), "earlier")>>,
    <<OtpEntry("111111", OtpTtlMs, Undefined, Undefined, "earlier")>> }

InitSignup ==
  /\ req = [files |-> <<>>, question |-> Undefined]
  /\ env = [GEMINI_API_KEY |-> Undefined, OCR_SPACE_API_KEY |-> Undefined]
  /\ inv = InvIdle
  /\ res = <<>>
  /\ ocr = OcrIdle
  /\ calls = CallsIdle
  /\ \E users \in {<<>>, <<SeedUser>>}, entry \in EarlierEntries,
        clientId \in {Undefined, Str("client-id")},
        q1 \in SignupRequests, q2 \in SignupRequests :
       auth = [AuthIdle EXCEPT
                 !.users = users,
                 !.otpStore["ann@x.io"] = entry,
                 !.GOOGLE_CLIENT_ID = clientId,
                 !.reqs = [r1 |-> q1, r2 |-> q2, r3 |-> ReqIdle]]

NextSignup ==
  \E r \in ReqIds :
    \/ RegisterFindOne(r) \/ RegisterCreateUser(r) \/ RegisterCreateToken(r)
    \/ VerifyOtpFindOne(r) \/ VerifyOtpCheck(r) \/ VerifyOtpCreateUser(r)
    \/ VerifyOtpConsume(r) \/ VerifyOtpCreateToken(r)
    \/ GoogleVerify(r) \/ GoogleCreateUser(r) \/ GoogleCreateToken(r)

SpecSignup == InitSignup /\ [][NextSignup]_vars

\* One sendOtp request and two verifyOtp requests for the same address,
\* with time passing and the cleanup running; the store may hold the entry
\* of an earlier sendOtp.
InitVerify ==
  /\ req = [files |-> <<>>, question |-> Undefined]
  /\ env = [GEMINI_API_KEY |-> Undefined, OCR_SPACE_API_KEY |-> Undefined]
  /\ inv = InvIdle
  /\ res = <<>>
  /\ ocr = OcrIdle
  /\ calls = CallsIdle
  /\ \E entry \in EarlierEntries,
        b1 \in {b \in SendOtpBodies : b.email = Str("ann@x.io")},
        b2 \in VerifyOtpBodies, b3 \in VerifyOtpBodies :
       auth = [AuthIdle EXCEPT
                 !.otpStore["ann@x.io"] = entry,
                 !.reqs = [r1 |-> NewRequest("sendOtp", b1),
                           r2 |-> NewRequest("verifyOtp", b2),
                           r3 |-> NewRequest("verifyOtp", b3)]]

SpecVerify == InitVerify /\ [][NextOtp]_vars

\* The codes clients send for an entry in the store: the right one, a
\* wrong one, and the right digits as a JSON number.
CodeBodies ==
  { [email |-> Str("ann@x.io"), code |-> c] : c \in OtpCodes \ {Undefined} }

\* Two verifyOtp requests for an address whose entry is in the store, and a
\* sendOtp request for it, with time passing and the cleanup running.
InitCodes ==
  /\ req = [files |-> <<>>, question |-> Undefined]
  /\ env = [GEMINI_API_KEY |-> Undefined, OCR_SPACE_API_KEY |-> Undefined]
  /\ inv = InvIdle
  /\ res = <<>>
  /\ ocr = OcrIdle
  /\ calls = CallsIdle
  /\ \E entry \in EarlierEntries \ {<<>>}, b2 \in CodeBodies, b3 \in CodeBodies :
       auth = [AuthIdle EXCEPT
                 !.otpStore["ann@x.io"] = entry,
                 !.reqs = [r1 |-> NewRequest("sendOtp", [email |-> Str("ann@x.io")] @@ SignupData),
                           r2 |-> NewRequest("verifyOtp", b2),
                           r3 |-> NewRequest("verifyOtp", b3)]]

SpecCodes == InitCodes /\ [][NextOtp]_vars

\* Three logins; ann@x.io is registered, bob@x.io is not.
InitLogin ==
  /\ req = [files |-> <<>>, question |-> Undefined]
  /\ env = [GEMINI_API_KEY |-> Undefined, OCR_SPACE_API_KEY |-> Undefined]
  /\ inv = InvIdle
  /\ res = <<>>
  /\ ocr = OcrIdle
  /\ calls = CallsIdle
  /\ \E bodies \in [ReqIds -> LoginBodies] :
       auth = [AuthIdle EXCEPT
                 !.users = <<SeedUser>>,
                 !.reqs = [r \in ReqIds |-> NewRequest("login", bodies[r])]]

NextLogin == \E r \in ReqIds : LoginFindOne(r) \/ LoginCompare(r) \/ LoginCreateToken(r)

SpecLogin == InitLogin /\ [][NextLogin]_vars

\* The seeded user, with a chat, a message and a refresh token, deletes the
\* account while two refresh requests are in flight.
InitDelete ==
  /\ req = [files |-> <<>>, question |-> Undefined]
  /\ env = [GEMINI_API_KEY |-> Undefined, OCR_SPACE_API_KEY |-> Undefined]
  /\ inv = InvIdle
  /\ res = <<>>
  /\ ocr = OcrIdle
  /\ calls = CallsIdle
  /\ \E user \in {<<>>, <<SeedUser.id>>}, expired \in BOOLEAN,
        c2 \in RefreshCookies, c3 \in RefreshCookies :
       auth = [AuthIdle EXCEPT
                 !.users = <<SeedUser>>,
                 !.tokens = {RefreshDoc("old", SeedUser.id, expired)},
                 !.chats = {[id |-> "c1", user |-> SeedUser.id]},
                 !.messages = {[id |-> "m1", chat |-> "c1"]},
                 !.reqs = [r1 |-> NewRequest("deleteAccount", [user |-> user]),
                           r2 |-> NewRequest("refresh", [cookie |-> c2]),
                           r3 |-> NewRequest("refresh", [cookie |-> c3])]]

NextDelete ==
  \E r \in ReqIds :
    \/ DeleteFindChats(r) \/ DeleteMessages(r) \/ DeleteChats(r)
    \/ DeleteTokens(r) \/ DeleteUser(r)
    \/ RefreshFindOne(r) \/ RefreshFindUser(r) \/ RefreshRotate(r) \/ RefreshCreate(r)

SpecDelete == InitDelete /\ [][NextDelete]_vars

-----------------------------------------------------------------------------
(* Properties of askWithFiles. *)

\* The extension the handler finds for each file of the model:
\* FileExt(FileName(f)), computed once.
ExtensionOf == [f \in FileSet \cup ImageFileSet |-> FileExt(FileName(f))]

\* The handler has answered a non-empty upload.
Answered == inv.pc = "done" /\ Len(req.files) > 0 /\ Len(res) = 1

\* The credential as configured: undefined and "" both count as absent.
KeyAbsent == env.GEMINI_API_KEY \in {Undefined, Str("")}

\* The text is empty or whitespace only: nothing is left once the leading
\* whitespace is removed.
Blank(text) == TrimStart(text) = ""

\* Every file yielded empty or whitespace-only text and no image part exists.
NothingExtracted ==
  /\ Len(inv.parts) = Len(req.files)
  /\ \A k \in 1..Len(inv.parts) : Blank(inv.parts[k].text)
  /\ inv.imageParts = <<>>

IsDiagnostic(answer) ==
  /\ IsStr(answer)
  /\ StartsWith(answer[2], "I couldn't extract any readable content from the uploaded files.")

C2_ExtractionOnly ==
  KeyAbsent =>
    /\ inv.geminiCalls = 0 /\ inv.request = <<>> /\ inv.pc # "calling"
    /\ Answered =>
         /\ res[1].status = 200
         /\ res[1].body.answer = Null
         /\ res[1].body.extracted = Combined(inv.parts)
         /\ Len(inv.parts) = Len(req.files)

C2_Witness ==
  /\ KeyAbsent /\ Answered
  /\ res[1].body.extracted # ""
  /\ \E k \in 1..Len(inv.parts) : inv.parts[k].error # Null

\* The file is a PDF that passes the input checks and whose parser returns
\* zero characters.
ZeroTextPdf(f) ==
  /\ ExtensionOf[f] = "pdf"
  /\ IsBuf(f.buffer) /\ StartsWith(f.buffer[2], "%PDF")
  /\ ~f.decode.threw
  /\ (Len(f.decode.texts) = 0 \/ f.decode.texts[1] = "")

\* C3 as claimed: the entry of a PDF whose parser returns zero characters
\* never carries an error: files[i].error is null.
C3_AsClaimed ==
  \A r \in 1..Len(res) :
    res[r].status = 200 =>
      \A k \in 1..Len(req.files) :
        ZeroTextPdf(req.files[k]) => res[r].body.files[k].error = Null

\* C4: every response that carries the results has one files entry per
\* uploaded file, in upload order, whatever happened to each file; the
\* records are pushed one per file in that order, and the extraction of a
\* file never turns the response into a failure.
C4_OneEntryPerFile ==
  /\ Len(inv.parts) = inv.i /\ inv.i <= Len(req.files)
  /\ \A k \in 1..Len(inv.parts) :
       /\ inv.parts[k].name = FileName(req.files[k])
       /\ inv.parts[k].size = FileSize(req.files[k])
  /\ \A r \in 1..Len(res) :
       /\ res[r].status = 200 =>
            /\ Len(res[r].body.files) = Len(req.files)
            /\ \A k \in 1..Len(req.files) :
                 /\ res[r].body.files[k].name = FileName(req.files[k])
                 /\ res[r].body.files[k].size = FileSize(req.files[k])
                 /\ res[r].body.files[k].type = ExtensionOf[req.files[k]]
       /\ res[r].status = 500 => inv.geminiCalls = 1
       /\ res[r].status = 400 => Len(req.files) = 0

C4_Witness ==
  /\ Answered /\ res[1].status = 200
  /\ Len(res[1].body.files) = 2
  /\ res[1].body.files[1].error # Null
  /\ res[1].body.files[2].error = Null
  /\ res[1].body.files[1].name # res[1].body.files[2].name

\* The extraction of the file fails: a malformed PDF, a decoder that throws,
\* an empty text file, an image without a buffer.
ExtractionFails(f) ==
  LET ext == ExtensionOf[f]
      empty == ~IsBuf(f.buffer) \/ f.buffer[2] = ""
  IN \/ ext = "pdf" /\ (empty \/ ~StartsWith(f.buffer[2], "%PDF") \/ f.decode.threw)
     \/ ext \in {"docx", "xlsx"} /\ f.decode.threw
     \/ ext \in {"txt", "html"} /\ empty
     \/ ext \in ImageExts /\ ~IsBuf(f.buffer)

\* C5: an extraction error of file i is recorded as file i's error and
\* nowhere else: every record is the record its file yields on its own,
\* whatever the other files did; a record carries an error exactly when its
\* own file failed (or is a scanned PDF); and no such error ends the loop or
\* fails the request.
C5_PerFileIsolation ==
  /\ \A k \in 1..Len(inv.parts) :
       /\ inv.parts[k] = IterationOf[req.files[k]].part
       /\ ExtractionFails(req.files[k]) =>
            IsStr(inv.parts[k].error) /\ inv.parts[k].text = ""
       /\ IsStr(inv.parts[k].error) =>
            ExtractionFails(req.files[k]) \/ ZeroTextPdf(req.files[k])
  /\ inv.pc = "done" /\ Len(req.files) > 0 => Len(inv.parts) = Len(req.files)
  /\ inv.geminiCalls = 0 => \A r \in 1..Len(res) : res[r].status # 500

C5_Witness ==
  /\ Answered /\ res[1].status = 200
  /\ Len(inv.parts) = 2
  /\ ExtractionFails(req.files[1])
  /\ ~ExtractionFails(req.files[2])
  /\ inv.parts[2].text # "" /\ inv.parts[2].error = Null

\* Every uploaded file is classified as an image.
OnlyImages ==
  /\ Len(req.files) > 0
  /\ \A k \in 1..Len(req.files) : ExtensionOf[req.files[k]] \in ImageExts

ImageOnlyFraming(n) ==
  "I have uploaded " \o ToString(n) \o
  " image(s) for analysis. Please examine them carefully and answer my question.\n\n"

\* C6 as claimed: an upload of image files only, with the credential
\* configured, is answered in Image-only mode: image parts are present, the
\* aggregated text is empty, and the prompt is the visual-analysis framing
\* followed by the question, with no aggregated-text section.
C6_AsClaimed ==
  (OnlyImages /\ ~KeyAbsent /\ inv.pc \in {"calling", "done"}) =>
    /\ Len(inv.imageParts) > 0
    /\ inv.combined = ""
    /\ Len(inv.request) = 1 + Len(inv.imageParts)
    /\ StartsWith(inv.request[1].text,
                  ImageOnlyFraming(Len(inv.imageParts)) \o "Question: ")

\* C7 as claimed: the aggregated text is empty if and only if no record has
\* non-empty extracted text.
C7_AsClaimed ==
  \A r \in 1..Len(res) :
    res[r].status = 200 =>
      (res[r].body.extracted = ""
         <=> \A k \in 1..Len(res[r].body.files) : res[r].body.files[k].textLength = 0)

\* C7 (amended): the aggregated text is empty if and only if no record has
\* text that is not whitespace only; a record whose text is non-empty but
\* blank contributes nothing.
C7_EmptyIffNoText ==
  /\ inv.pc \in {"calling", "done"} /\ Len(req.files) > 0 =>
       (inv.combined = "" <=> \A k \in 1..Len(inv.parts) : Blank(inv.parts[k].text))
  /\ \A r \in 1..Len(res) :
       res[r].status = 200 =>
         (res[r].body.extracted = ""
            <=> \A k \in 1..Len(inv.parts) : Blank(inv.parts[k].text))

C7_Witness ==
  /\ Answered /\ res[1].status = 200
  /\ res[1].body.extracted = ""
  /\ \E k \in 1..Len(res[1].body.files) : res[1].body.files[k].textLength > 0

\* The line of the file analysis the claim describes: name, type (the
\* extension), size, and the error or "No text found".
ClaimedLine(p) ==
  Bullet \o " " \o p.name \o " (" \o p.ext \o ", " \o KB(p.size) \o "KB): " \o
  (IF IsStr(p.error) /\ p.error[2] # "" THEN p.error[2] ELSE "No text found")

\* C8 as claimed: on the no-content path the diagnostic answer lists every
\* file in upload order with its name, its type (the extension), its size and
\* its error or "No text found", and the error field joins the per-file
\* errors.
C8_AsClaimed ==
  (Answered /\ NothingExtracted /\ ~KeyAbsent) =>
    /\ IsStr(res[1].body.answer)
    /\ res[1].body.answer[2] =
         DiagnosticHead
         \o Join([k \in 1..Len(inv.parts) |-> ClaimedLine(inv.parts[k])], "\n")
         \o DiagnosticTail
    /\ IsStr(res[1].body.error)

-----------------------------------------------------------------------------
(* Properties of extractText. *)

Count(events, e) == Cardinality({k \in 1..Len(events) : events[k] = e})

\* C9: extractText is total: whatever the key, the hosted service and the
\* local engine do, it never raises, it is never stuck before its end, and it
\* ends by returning a string.
C9_ChainTotal ==
  /\ ~ocr.raised
  /\ ocr.pc = "done" => IsStr(ocr.result)
  /\ ocr.pc \in {"start", "fetch", "local", "recognizing"} => ENABLED NextOcr

C9_Witness ==
  /\ ocr.pc = "done"
  /\ ocr.hosted.kind = "rejects" /\ ocr.local.threw
  /\ ocr.events = <<"hosted-call", "hosted-end", "local-call", "local-end">>
  /\ ocr.result = Str("")

\* The hosted reply is well formed and its parsed text is not blank.
HostedUsable(h) ==
  /\ h.kind = "json" /\ ~h.isNull /\ IsArr(h.ParsedResults)
  /\ Len(h.ParsedResults[2]) > 0
  /\ \A k \in 1..Len(h.ParsedResults[2]) : IsObj(h.ParsedResults[2][k])
  /\ ~Blank(Join(ParsedTexts(h.ParsedResults[2]), "\n"))

\* C10: the local engine is invoked at most once, and only after the hosted
\* call has ended unusable or was skipped (no key); when the hosted reply
\* carries non-blank parsed text, extractText returns that text, the pages
\* joined by a newline, and the local engine is never invoked.
C10_StagesSequential ==
  /\ Count(ocr.events, "local-call") <= 1
  /\ Count(ocr.events, "hosted-call") <= 1
  /\ \A k \in 1..Len(ocr.events) :
       ocr.events[k] = "local-call" =>
         \/ /\ env.OCR_SPACE_API_KEY \in {Undefined, Str("")}
            /\ Count(ocr.events, "hosted-call") = 0
         \/ /\ k > 2
            /\ ocr.events[k - 1] = "hosted-end"
            /\ ~HostedUsable(ocr.hosted)
  /\ (Count(ocr.events, "hosted-end") = 1 /\ HostedUsable(ocr.hosted)) =>
       /\ ocr.pc = "done"
       /\ ocr.result = Str(Join(ParsedTexts(ocr.hosted.ParsedResults[2]), "\n"))
       /\ Count(ocr.events, "local-call") = 0

C10_Witness ==
  /\ ocr.pc = "done"
  /\ ocr.events = <<"hosted-call", "hosted-end">>
  /\ Len(ocr.hosted.ParsedResults[2]) = 2
  /\ ocr.result = Str("Hello\npage two")

\* No credential for the hosted service: process.env.OCR_SPACE_API_KEY is
\* unset or the empty string.
NoOcrKey == env.OCR_SPACE_API_KEY \in {Undefined, Str("")}

\* What the local engine gives: data.text when recognize resolves with
\* non-empty text, the empty string otherwise.
LocalResult(local) ==
  IF ~local.threw /\ IsStr(local.text) /\ local.text[2] # ""
  THEN Str(local.text[2]) ELSE Str("")

\* C11: without a hosted-OCR credential extractText never calls the hosted
\* service: the local engine is the only thing called, once, and what
\* extractText returns is exactly the local engine's result.
C11_NoKeyLocalOnly ==
  NoOcrKey =>
    /\ Count(ocr.events, "hosted-call") = 0
    /\ Count(ocr.events, "hosted-end") = 0
    /\ ocr.pc # "fetch"
    /\ ocr.pc = "done" =>
         /\ ocr.events = <<"local-call", "local-end">>
         /\ ocr.result = LocalResult(ocr.local)

C11_Witness ==
  /\ env.OCR_SPACE_API_KEY = Undefined
  /\ ocr.pc = "done"
  /\ ocr.hosted.kind = "json" /\ HostedUsable(ocr.hosted)
  /\ ocr.events = <<"local-call", "local-end">>
  /\ ocr.result = Str("local words")

-----------------------------------------------------------------------------
(* Properties of the aggregated text and of the request to the answering    *)
(* service.                                                                 *)

\* The aggregation has run: inv.combined is the aggregated text of inv.parts.
Aggregated == inv.pc \in {"calling", "done"}

\* The header line of a record's segment.
Header(p) == "--- " \o p.name \o " (" \o p.ext \o ") ---\n"

\* Reads text from position at on as the segments of the records of parts
\* that have text, each a header followed by a body that is the first
\* min(length, 20000) characters of the record's text, two newlines between
\* segments; nothing is left of text at the end.
RECURSIVE SegmentsAt(_, _, _)
SegmentsAt(text, parts, at) ==
  IF Len(parts) = 0 THEN (at = 1 /\ text = "") \/ at = Len(text) + 3
  ELSE IF Blank(parts[1].text) THEN SegmentsAt(text, Tail(parts), at)
  ELSE LET p == parts[1]
           bodyAt == at + Len(Header(p))
           bodyLen == Min(Len(p.text), 20000)
       IN /\ bodyAt + bodyLen - 1 <= Len(text)
          /\ SubSeq(text, at, bodyAt - 1) = Header(p)
          /\ SubSeq(text, bodyAt, bodyAt + bodyLen - 1) = SubSeq(p.text, 1, bodyLen)
          /\ SegmentsAt(text, Tail(parts), bodyAt + bodyLen + 2)

\* C12: in the aggregated text the body of every segment is the first
\* min(length, 20000) characters of its file's extracted text, so at most
\* 20,000 characters; textLength in the response is the length of the whole
\* extracted text (for a text file, the length of its buffer).
C12_SegmentsTruncated ==
  /\ Aggregated => SegmentsAt(inv.combined, inv.parts, 1)
  /\ \A r \in 1..Len(res) : res[r].status = 200 =>
       /\ res[r].body.extracted = inv.combined
       /\ \A k \in 1..Len(req.files) :
            /\ res[r].body.files[k].textLength = Len(inv.parts[k].text)
            /\ (inv.parts[k].ext = "txt" /\ inv.parts[k].error = Null) =>
                 res[r].body.files[k].textLength = Len(req.files[k].buffer[2])

C12_Witness ==
  /\ Answered /\ res[1].status = 200
  /\ Len(req.files) = 2
  /\ req.files[1].originalname = Str("long.txt")
  /\ req.files[2].originalname = Str("file.txt")
  /\ res[1].body.files[1].textLength = 20003
  /\ Len(res[1].body.extracted) =
       Len("--- long.txt (txt) ---\n") + 20000 + 2 + Len("--- file.txt (txt) ---\n") + 11

\* The blocks of the records whose text is not blank, in the order of parts.
RECURSIVE BlocksOf(_)
BlocksOf(parts) ==
  IF Len(parts) = 0 THEN <<>>
  ELSE LET p == parts[1]
       IN (IF Blank(p.text) THEN <<>>
           ELSE <<"--- " \o p.name \o " (" \o p.ext \o ") ---" \o "\n"
                  \o SubSeq(p.text, 1, Min(Len(p.text), 20000))>>)
          \o BlocksOf(Tail(parts))

\* The blocks one after the other, a blank line between two of them.
RECURSIVE BlankLineSeparated(_)
BlankLineSeparated(blocks) ==
  IF Len(blocks) = 0 THEN ""
  ELSE IF Len(blocks) = 1 THEN blocks[1]
  ELSE blocks[1] \o "\n\n" \o BlankLineSeparated(Tail(blocks))

\* The upload of the scenario: one text file holding "hello world".
HelloUpload == <<UploadedFile(Str("file.txt"), Buf("hello world"), NoDecoder)>>

\* C13: the aggregated text is the blocks '--- <name> (<ext>) ---', newline,
\* truncated text of exactly the records with non-blank text, in upload
\* order, separated by one blank line; a record with blank text adds nothing.
\* Scenario: file.txt holding "hello world", no credential: the response is
\* { extracted: "--- file.txt (txt) ---\nhello world", answer: null,
\*   files: [{name: "file.txt", type: "txt", size: 11, textLength: 11,
\*   error: null}] }.
C13_AggregatedText ==
  /\ Aggregated => inv.combined = BlankLineSeparated(BlocksOf(inv.parts))
  /\ \A r \in 1..Len(res) : res[r].status = 200 =>
       res[r].body.extracted = BlankLineSeparated(BlocksOf(inv.parts))
  /\ (Answered /\ KeyAbsent /\ req.files = HelloUpload
        /\ req.question = Str("what does this say?")) =>
       res = <<[status |-> 200,
                body |-> [extracted |-> "--- file.txt (txt) ---\nhello world",
                          answer |-> Null,
                          files |-> <<[name |-> "file.txt", type |-> "txt",
                                       size |-> 11, textLength |-> 11,
                                       error |-> Null]>>,
                          error |-> Undefined]]>>

C13_Witness ==
  /\ Answered /\ res[1].status = 200
  /\ Len(req.files) = 2
  /\ req.files[1].originalname = Str("file.txt")
  /\ req.files[2].originalname = Str("a.pdf")
  /\ res[1].body.extracted =
       "--- file.txt (txt) ---\nhello world\n\n--- a.pdf (pdf) ---\nHello pdf"

\* The answering service has been called (axios.post was reached).
Called == inv.geminiCalls > 0

\* s occurs in t.
Includes(t, s) ==
  \E i \in 1..(Len(t) - Len(s) + 1) : SubSeq(t, i, i + Len(s) - 1) = s

\* The upload of the scenario: one .jpg and one .xlsx.
JpgAndXlsx ==
  /\ Len(req.files) = 2
  /\ req.files[1].originalname = Str("p.JPG")
  /\ req.files[2].originalname = Str("s.xlsx")

\* C14: when the answering service is called, the parts of the request are
\* one text part, the prompt, followed by one inlineData part (mimeType, data)
\* for each ImagePart in the order of imageParts: 1 + number of ImageParts in
\* all. For one .jpg and one .xlsx: exactly one inline image part, and the
\* text of the xlsx inside the prompt.
C14_RequestParts ==
  /\ inv.geminiCalls <= 1
  /\ Called =>
       /\ Len(inv.request) = 1 + Len(inv.imageParts)
       /\ DOMAIN inv.request[1] = {"text"}
       /\ inv.request[1].text = PromptText(inv.combined, inv.imageParts, Question)
       /\ \A k \in 1..Len(inv.imageParts) :
            inv.request[k + 1] =
              [inlineData |-> [mimeType |-> inv.imageParts[k].mimeType,
                               data |-> inv.imageParts[k].data]]
  /\ (Called /\ JpgAndXlsx) =>
       /\ Len(inv.request) = 2
       /\ inv.request[2] = [inlineData |-> [mimeType |-> "image/jpeg", data |-> "SkZJRg=="]]
       /\ Includes(inv.request[1].text, "--- s.xlsx (xlsx) ---\na,b\n1,2\n\nx\n")

C14_Witness ==
  /\ inv.pc = "calling"
  /\ JpgAndXlsx
  /\ Len(inv.request) = 2
  /\ "inlineData" \in DOMAIN inv.request[2]

\* The file is classified as an image: its lowercased extension is one of
\* the image extensions.
IsImageFile(f) ==
  ExtensionOf[f] \in {"jpg", "jpeg", "png", "webp", "tif", "tiff", "bmp", "gif"}

\* The image file comes with its bytes.
IsReadableImage(f) == IsImageFile(f) /\ IsBuf(f.buffer)

\* The uploads the loop has gone through so far.
Processed == SubSeq(req.files, 1, Len(inv.parts))

\* The names carried by the ImageParts, and the names of uploaded files.
PartNames(s) == [k \in 1..Len(s) |-> s[k].name]

FileNames(s) == [k \in 1..Len(s) |-> FileName(s[k])]

\* C15 as claimed: the ImageParts are the image-classified uploads, one part
\* per image file, in upload order. An image file that comes without a
\* buffer has no part.
C15_AsClaimed ==
  PartNames(inv.imageParts) = FileNames(SelectSeq(Processed, IsImageFile))

\* C15: the ImageParts are exactly the image-classified uploads that come
\* with a buffer, in upload order, each carrying its file's name; an image
\* file without a buffer has a record with an error and no part; no part is
\* ever made for a pdf, docx, xlsx, text or unsupported file, whether its
\* extraction failed or not.
C15_ImagePartsFromImages ==
  LET images == SelectSeq(Processed, IsReadableImage)
  IN /\ Len(inv.imageParts) = Len(images)
     /\ \A k \in 1..Len(images) :
          /\ inv.imageParts[k].name = FileName(images[k])
          /\ DOMAIN inv.imageParts[k] = {"name", "mimeType", "data"}
     /\ \A k \in 1..Len(inv.parts) :
          /\ (IsImageFile(req.files[k]) /\ ~IsBuf(req.files[k].buffer)) =>
               IsStr(inv.parts[k].error)
          /\ ~IsImageFile(req.files[k]) =>
               \A j \in 1..Len(inv.imageParts) :
                 inv.imageParts[j].name # inv.parts[k].name

C15_Witness ==
  /\ Aggregated
  /\ Len(req.files) = 2
  /\ req.files[1].originalname = Str("nobuf.gif")
  /\ req.files[2].originalname = Str("p.JPG")
  /\ IsStr(inv.parts[1].error)
  /\ PartNames(inv.imageParts) = <<"p.JPG">>

\* The call of the answering service was rejected: a transport error, or a
\* status outside 2xx, which axios rejects as well.
CallFailed == Len(inv.reply) = 1 /\ inv.reply[1].threw

\* C16: when the call of the answering service fails, the whole request
\* fails: the only response is a 500 whose details are the message of the
\* failure, and it has no answer, no extracted text and no per-file results,
\* whatever the files had given.
C16_SynthesisFailureFatal ==
  CallFailed =>
    /\ inv.pc = "done"
    /\ Len(res) = 1
    /\ res[1].status = 500
    /\ DOMAIN res[1].body = {"error", "details"}
    /\ res[1].body.error = "Failed to process files"
    /\ res[1].body.details = inv.reply[1].message

C16_Witness ==
  /\ CallFailed
  /\ Len(req.files) = 2
  /\ \A k \in 1..2 : inv.parts[k].error = Null /\ inv.parts[k].text # ""
  /\ res[1].status = 500
  /\ res[1].body.details = "Request failed with status code 429"

-----------------------------------------------------------------------------
(* Properties of the extractors' input checks. *)

\* The buffer is missing or has no bytes.
NoBytes(f) == ~IsBuf(f.buffer) \/ f.buffer[2] = ""

\* The buffer does not start with the four bytes %PDF.
NoPdfSignature(f) ==
  IsBuf(f.buffer) /\ ~(Len(f.buffer[2]) >= 4 /\ SubSeq(f.buffer[2], 1, 4) = "%PDF")

\* A .pdf upload that fails one of the two input checks.
MalformedPdf(f) ==
  ExtensionOf[f] = "pdf" /\ (NoBytes(f) \/ NoPdfSignature(f))

\* The error is a string that says something.
Populated(error) == IsStr(error) /\ error[2] # ""

\* The record of a malformed pdf: an error, no text, the parser not called.
MalformedPdfRecorded(k) ==
  /\ Populated(inv.parts[k].error)
  /\ inv.parts[k].text = ""
  /\ FileEntry(inv.parts[k]).textLength = 0
  /\ \A j \in 1..Len(inv.pdfParsed) : inv.pdfParsed[j] # inv.parts[k].name

\* C17 as claimed: a malformed pdf is recorded with an error and no text, is
\* never parsed, and the request ends with a response that is not a 500.
C17_AsClaimed ==
  \A k \in 1..Len(inv.parts) : MalformedPdf(req.files[k]) =>
    /\ MalformedPdfRecorded(k)
    /\ \A r \in 1..Len(res) : res[r].status # 500

\* C17: a malformed pdf is recorded with a populated error and no text
\* (textLength 0) and the parser is never called on it; the loop goes on to
\* the end of the upload, and the response is a 200 carrying that record
\* unless the call of the answering service fails.
C17_MalformedPdfRecorded ==
  \A k \in 1..Len(inv.parts) : MalformedPdf(req.files[k]) =>
    /\ MalformedPdfRecorded(k)
    /\ inv.pc = "done" => Len(inv.parts) = Len(req.files) /\ Len(res) = 1
    /\ \A r \in 1..Len(res) :
         /\ res[r].status = 500 <=> CallFailed
         /\ res[r].status # 500 =>
              /\ res[r].status = 200
              /\ res[r].body.files[k].textLength = 0
              /\ Populated(res[r].body.files[k].error)

C17_Witness ==
  /\ Answered /\ res[1].status = 200
  /\ Len(req.files) = 2
  /\ req.files[1].originalname = Str("nobuf.pdf")
  /\ req.files[2].originalname = Str("file.txt")
  /\ res[1].body.files[1].error = Str("PDF parsing failed: Empty or invalid buffer")
  /\ res[1].body.files[1].textLength = 0
  /\ res[1].body.answer = Str("It says hello.")

\* A .pdf upload that passes both input checks and whose parser throws.
ParserThrows(f) ==
  /\ ExtensionOf[f] = "pdf"
  /\ ~NoBytes(f) /\ ~NoPdfSignature(f)
  /\ f.decode.threw

\* The messages of the errors thrown for the two input violations.
EmptyBufferMessage == "PDF parsing failed: Empty or invalid buffer"

MissingHeaderMessage ==
  "PDF parsing failed: File does not appear to be a valid PDF (missing %PDF header)"

Unsupported(f) ==
  ExtensionOf[f] \notin
    {"pdf", "docx", "xlsx", "txt", "html",
     "jpg", "jpeg", "png", "webp", "tif", "tiff", "bmp", "gif"}

\* s without its k-th element.
Without(s, k) == SubSeq(s, 1, k - 1) \o SubSeq(s, k + 1, Len(s))

\* C19: a file with an unsupported extension has a record with empty text and
\* error null; the aggregated text is what it would be without the file, no
\* ImagePart carries its name, and it never fails the request: an upload of
\* unsupported files only is answered 200, and a 500 only ever follows a
\* failed call of the answering service.
C19_UnsupportedSilent ==
  /\ \A k \in 1..Len(inv.parts) : Unsupported(req.files[k]) =>
       /\ inv.parts[k].text = ""
       /\ inv.parts[k].error = Null
       /\ \A j \in 1..Len(inv.imageParts) :
            inv.imageParts[j].name # inv.parts[k].name
       /\ Aggregated =>
            inv.combined = BlankLineSeparated(BlocksOf(Without(inv.parts, k)))
       /\ \A r \in 1..Len(res) :
            /\ res[r].status = 500 <=> CallFailed
            /\ res[r].status = 200 =>
                 res[r].body.files[k] =
                   [name |-> FileName(req.files[k]),
                    type |-> ExtensionOf[req.files[k]],
                    size |-> FileSize(req.files[k]),
                    textLength |-> 0, error |-> Null]
  /\ (inv.pc = "done" /\ Len(req.files) > 0
        /\ \A k \in 1..Len(req.files) : Unsupported(req.files[k])) =>
       Len(res) = 1 /\ res[1].status = 200

C19_Witness ==
  /\ Answered /\ res[1].status = 200
  /\ Len(req.files) = 2
  /\ req.files[1].originalname = Undefined
  /\ req.files[2].originalname = Str("file.txt")
  /\ res[1].body.files[1] =
       [name |-> "file", type |-> "file", size |-> 2, textLength |-> 0, error |-> Null]
  /\ res[1].body.extracted = "--- file.txt (txt) ---\nhello world"
  /\ inv.imageParts = <<>>

\* A .txt or .html upload.
IsTextFile(f) == ExtensionOf[f] \in {"txt", "html"}

\* C20: a .txt or .html file with an empty or missing buffer has a record
\* with a populated error ("Empty or invalid buffer for text file") and empty
\* text; with a non-empty buffer its record has the decoded bytes as text and
\* error null, and the response reports them so.
C20_TextFiles ==
  \A k \in 1..Len(inv.parts) : IsTextFile(req.files[k]) =>
    LET f == req.files[k]
        p == inv.parts[k]
    IN /\ NoBytes(f) =>
            /\ Populated(p.error)
            /\ p.error = Str("Empty or invalid buffer for text file")
            /\ p.text = ""
       /\ ~NoBytes(f) =>
            /\ p.text = f.buffer[2]
            /\ p.error = Null
       /\ \A r \in 1..Len(res) : res[r].status = 200 =>
            /\ res[r].body.files[k].textLength =
                 (IF NoBytes(f) THEN 0 ELSE Len(f.buffer[2]))
            /\ IsStr(res[r].body.files[k].error) <=> NoBytes(f)

C20_Witness ==
  /\ Answered /\ res[1].status = 200
  /\ Len(req.files) = 2
  /\ req.files[1].originalname = Str("nobuf.txt")
  /\ req.files[2].originalname = Str("file.txt")
  /\ res[1].body.files[1].error = Str("Empty or invalid buffer for text file")
  /\ res[1].body.files[1].textLength = 0
  /\ inv.parts[2].text = "hello world"
  /\ res[1].body.files[2].error = Null

-----------------------------------------------------------------------------
(* Properties of the prompt, of the calls made and of the responses sent. *)

\* The framings of the Mixed and of the Text-only mode.
MixedFraming(text, n) ==
  "I have uploaded files with both text and images:\n\n" \o text \o
  "\n\nI have also uploaded " \o ToString(n) \o
  " image(s). Please analyze everything carefully.\n\n"

TextOnlyFraming(text) ==
  "I have uploaded the following files with extracted text:\n\n" \o text \o "\n\n"

\* The end of every prompt: the question, then the fixed instructions.
QuestionAndInstructions(question) ==
  "Question: " \o question \o
  "\n\nPlease provide a detailed and accurate answer based on the uploaded content. For math problems in images, transcribe the problem first, then show step-by-step solutions with proper formatting. For images with diagrams or handwriting, describe what you see before answering."

\* One ImagePart, to apply the framing to images without text.
SomeImagePart == [name |-> "p.JPG", mimeType |-> "image/jpeg", data |-> "SkZJRg=="]

\* C21: when the answering service is called, images are present or the
\* aggregated text is not blank (never neither), and the prompt is the
\* framing of the one mode these two facts select (Mixed: both, with the
\* aggregated text verbatim; Text-only: text only, with the text verbatim;
\* Image-only: images only), followed by the literal question and the fixed
\* instructions. On images without text the framing is the Image-only one.
C21_PromptModes ==
  /\ Called =>
       LET n == Len(inv.imageParts)
           text == ~Blank(inv.combined)
           tail == QuestionAndInstructions(Question)
           prompt == inv.request[1].text
       IN /\ n > 0 \/ text
          /\ (n > 0 /\ text) => prompt = MixedFraming(inv.combined, n) \o tail
          /\ (n = 0 /\ text) => prompt = TextOnlyFraming(inv.combined) \o tail
          /\ (n > 0 /\ ~text) => prompt = ImageOnlyFraming(n) \o tail
  /\ PromptText("", <<SomeImagePart>>, "why?")
       = ImageOnlyFraming(1) \o QuestionAndInstructions("why?")
  /\ PromptText(" \n", <<SomeImagePart, SomeImagePart>>, "")
       = ImageOnlyFraming(2) \o QuestionAndInstructions("")

C21_Witness ==
  /\ inv.pc = "calling"
  /\ JpgAndXlsx
  /\ req.question = Str("what does this say?")
  /\ StartsWith(inv.request[1].text, "I have uploaded files with both text and images:\n\n--- p.JPG (jpg) ---\n[Image: p.JPG")

\* The fixed table of the MIME types, by lowercased extension.
MimeTable ==
  [jpg |-> "image/jpeg", jpeg |-> "image/jpeg", png |-> "image/png",
   webp |-> "image/webp", gif |-> "image/gif", tif |-> "image/tiff",
   tiff |-> "image/tiff", bmp |-> "image/bmp"]

\* The number of uploads among the first n whose extension is in the table.
RECURSIVE ImageUploads(_)
ImageUploads(n) ==
  IF n = 0 THEN 0
  ELSE ImageUploads(n - 1)
       + (IF ExtensionOf[req.files[n]] \in DOMAIN MimeTable THEN 1 ELSE 0)

\* C22: every ImagePart belongs to an upload whose lowercased extension is in
\* the table and its mimeType is the table's value for that extension; the
\* request's inline parts carry the same types; an upload whose extension is
\* not in the table has no ImagePart, so image/jpeg is never given to it, and
\* when the extension is in no known set its record is the unsupported one
\* (empty text, no error). Every upload here comes with a buffer.
C22_MimeResolution ==
  /\ Len(inv.imageParts) = ImageUploads(Len(inv.parts))
  /\ \A j \in 1..Len(inv.imageParts) :
       /\ \E k \in 1..Len(inv.parts) : inv.parts[k].name = inv.imageParts[j].name
       /\ \A k \in 1..Len(inv.parts) :
            inv.parts[k].name = inv.imageParts[j].name =>
              /\ ExtensionOf[req.files[k]] \in DOMAIN MimeTable
              /\ inv.imageParts[j].mimeType = MimeTable[ExtensionOf[req.files[k]]]
       /\ Called => inv.request[j + 1].inlineData.mimeType = inv.imageParts[j].mimeType
  /\ \A k \in 1..Len(inv.parts) :
       ExtensionOf[req.files[k]] \in {"heic", "svg", "image"} =>
         /\ inv.parts[k].text = "" /\ inv.parts[k].error = Null
         /\ \A j \in 1..Len(inv.imageParts) :
              inv.imageParts[j].name # inv.parts[k].name

C22_Witness ==
  /\ inv.pc = "calling"
  /\ Len(req.files) = 2
  /\ req.files[1].originalname = Str("g.Tiff")
  /\ req.files[2].originalname = Str("i.heic")
  /\ inv.imageParts = <<[name |-> "g.Tiff", mimeType |-> "image/tiff", data |-> "TU0q"]>>
  /\ inv.parts[2].text = "" /\ inv.parts[2].error = Null

\* C23: in one invocation of askWithFiles the answering service is called at
\* most once (not at all before the loop has ended), and neither the hosted
\* OCR service nor the local engine is called: extractText is never entered,
\* an image has its placeholder text and its ImagePart, a scanned pdf has its
\* info text as error.
C23_CallsMade ==
  /\ inv.geminiCalls <= 1
  /\ inv.pc \in {"start", "loop"} => inv.geminiCalls = 0
  /\ Called => Len(inv.reply) = (IF inv.pc = "done" THEN 1 ELSE 0)
  /\ ocr.pc = "idle" /\ ocr.events = <<>>
  /\ \A k \in 1..Len(inv.parts) :
       /\ ExtensionOf[req.files[k]] \in DOMAIN MimeTable /\ IsBuf(req.files[k].buffer) =>
            inv.parts[k].text = ImagePlaceholder(inv.parts[k].name)
       /\ ZeroTextPdf(req.files[k]) =>
            inv.parts[k].text = "" /\ inv.parts[k].error = Str(ScannedInfo)

C23_Witness ==
  /\ Answered /\ Called
  /\ Len(req.files) = 2
  /\ req.files[1].originalname = Str("scan.PDF")
  /\ req.files[2].originalname = Str("q.png")
  /\ inv.geminiCalls = 1
  /\ ocr.events = <<>>
  /\ res[1].status = 200

\* The length of the aggregated text when only the first n records without
\* an error contribute: header, at most 20,000 characters of text, and two
\* newlines before every segment but the first.
RECURSIVE ErrorFreeLength(_, _)
ErrorFreeLength(parts, first) ==
  IF Len(parts) = 0 THEN 0
  ELSE LET p == parts[1]
       IN IF p.error = Null /\ ~Blank(p.text)
          THEN (IF first THEN 0 ELSE 2) + Len(Header(p)) + Min(Len(p.text), 20000)
               + ErrorFreeLength(Tail(parts), FALSE)
          ELSE ErrorFreeLength(Tail(parts), first)

\* C26: a record with an error (a caught exception, or the info of a scanned
\* pdf) has empty text; the response reports it with textLength 0; and the
\* aggregated text has no segment for it: its length is that of the segments
\* of the records without error.
C26_ErrorMeansNoText ==
  /\ \A k \in 1..Len(inv.parts) :
       inv.parts[k].error # Null =>
         /\ IsStr(inv.parts[k].error)
         /\ inv.parts[k].text = ""
         /\ ExtractionFails(req.files[k]) \/ ZeroTextPdf(req.files[k])
         /\ \A r \in 1..Len(res) : res[r].status = 200 =>
              /\ res[r].body.files[k].textLength = 0
              /\ res[r].body.files[k].error = inv.parts[k].error
  /\ Aggregated => Len(inv.combined) = ErrorFreeLength(inv.parts, TRUE)

C26_Witness ==
  /\ Answered /\ res[1].status = 200
  /\ Len(req.files) = 2
  /\ req.files[1].originalname = Str("scan.PDF")
  /\ req.files[2].originalname = Str("enc.pdf")
  /\ res[1].body.files[1].error = Str(ScannedInfo)
  /\ res[1].body.files[2].error = Str("PDF parsing failed: Invalid PDF structure")
  /\ res[1].body.files[1].textLength = 0 /\ res[1].body.files[2].textLength = 0
  /\ res[1].body.extracted = ""

\* What the iterations over files push to imageParts, in order.
RECURSIVE PushedBy(_)
PushedBy(files) ==
  IF Len(files) = 0 THEN <<>>
  ELSE IterationOf[files[1]].pushed \o PushedBy(Tail(files))

RecordsOf(files) == [k \in 1..Len(files) |-> IterationOf[files[k]].part]

\* The response an invocation sends, from its own files, the key and the
\* way its own call to the answering service settled.
OwnOutcome(me, geminiKey) ==
  LET files == me.req.files
      parts == RecordsOf(files)
      combined == Combined(parts)
      response == Response(parts, combined)
      mode == AnswerMode(geminiKey, combined, PushedBy(files))
  IN IF Len(files) = 0
     THEN [status |-> 400, body |-> [error |-> "No files uploaded"]]
     ELSE IF mode = "extraction-only"
     THEN [status |-> 200, body |-> response]
     ELSE IF mode = "no-content"
     THEN [status |-> 200, body |-> NoContentResponse(response, parts)]
     ELSE IF me.inv.reply[1].threw
     THEN [status |-> 500, body |-> [error |-> "Failed to process files",
                                     details |-> me.inv.reply[1].message]]
     ELSE [status |-> 200,
           body |-> [response EXCEPT !.answer = TextResp(me.inv.reply[1].candidates)]]

\* C24: with two invocations interleaved at their awaits, the records, the
\* ImageParts, the aggregated text, the request to the answering service and
\* the response of each invocation are those its own files and question (and
\* the configured credential, and the reply to its own call) determine.
C24_NoInterference ==
  \A c \in Invocations :
    LET me == calls[c]
        seen == SubSeq(me.req.files, 1, me.inv.i)
    IN /\ me.inv.parts = RecordsOf(seen)
       /\ me.inv.imageParts = PushedBy(seen)
       /\ me.inv.pc \in {"calling", "done"} /\ Len(me.req.files) > 0 =>
            me.inv.combined = Combined(RecordsOf(me.req.files))
       /\ me.inv.pc = "calling" =>
            /\ me.inv.request =
                 GeminiParts(PromptText(Combined(RecordsOf(me.req.files)),
                                        PushedBy(me.req.files), CallQuestion(me)),
                             PushedBy(me.req.files))
            /\ me.res = <<>>
       /\ me.inv.pc = "done" => me.res = <<OwnOutcome(me, env.GEMINI_API_KEY)>>
       /\ me.inv.pc \in {"start", "loop"} => me.res = <<>>

\* Both invocations are in flight, one with two records and no ImagePart,
\* the other with one record and one ImagePart.
C24_Witness ==
  /\ calls["first"].inv.pc = "calling" /\ calls["second"].inv.pc = "calling"
  /\ Len(calls["first"].inv.parts) = 2 /\ calls["first"].inv.imageParts = <<>>
  /\ calls["first"].inv.combined # ""
  /\ Len(calls["second"].inv.parts) = 1 /\ Len(calls["second"].inv.imageParts) = 1
  /\ calls["second"].inv.combined # calls["first"].inv.combined
  /\ calls["first"].req.question # calls["second"].req.question

\* The status each path of the handler answers with.
StatusOfPath ==
  IF Len(req.files) = 0 THEN 400
  ELSE IF CallFailed THEN 500
  ELSE 200

C27_AsClaimed ==
  /\ \A c \in RefreshCookies :
       Cardinality({r \in ReqIds : Succeeded(r) /\ auth.reqs[r].cookie = c}) <= 1
  /\ \A r \in ReqIds, q \in ReqIds :
       /\ auth.reqs[r].pc = "done" /\ q \in auth.reqs[r].after
       /\ Succeeded(q) /\ auth.reqs[q].cookie = auth.reqs[r].cookie
       => auth.reqs[r].res[1].status = 401

\* The entry request r stored is what the store holds for its email.
EntryInStore(r) ==
  /\ auth.otpStore[auth.reqs[r].normalized] # <<>>
  /\ auth.otpStore[auth.reqs[r].normalized][1].by = r

\* C28: the entry stored by a sendOtp call that answered success is in the
\* store until it expires, is consumed by verifyOtp or is overwritten by
\* another sendOtp; the failed mail of another sendOtp never removes it.
\* (Every overwrite is allowed here, also one by a call that started
\* earlier and stored later.)
C28_AsClaimed ==
  \A r \in ReqIds :
    auth.reqs[r].kind = "sendOtp" /\ Succeeded(r) =>
      \/ EntryInStore(r)
      \/ \E x \in auth.removed :
           x.by = r /\ x.cause \in {"expired", "consumed", "overwritten"}

SignupKinds == {"register", "verifyOtp", "googleSignup"}

UsersWithEmail(e) == {k \in 1..Len(auth.users) : auth.users[k].email = e}

\* Request r created a user document.
Created(r) == \E k \in 1..Len(auth.users) : auth.users[k].id = r

AnsweredError(r) ==
  /\ auth.reqs[r].pc = "done"
  /\ auth.reqs[r].res[1].status >= 400

\* C29: under every interleaving of register, verifyOtp and googleSignup
\* requests there is at most one user document per normalized email, every
\* stored email is normalized, and of the requests for one email at most one
\* creates the user: every other one is answered with an error status.
C29_OneUserPerEmail ==
  /\ \A k \in 1..Len(auth.users) : auth.users[k].email \in NormalEmails
  /\ \A e \in NormalEmails : Cardinality(UsersWithEmail(e)) <= 1
  /\ \A r \in ReqIds :
       auth.reqs[r].kind \in SignupKinds /\ auth.reqs[r].pc = "done" /\ ~Created(r)
       => AnsweredError(r)
  /\ \A r \in ReqIds, q \in ReqIds :
       /\ r # q /\ auth.reqs[r].kind \in SignupKinds /\ auth.reqs[q].kind \in SignupKinds
       /\ auth.reqs[r].pc = "done" /\ auth.reqs[q].pc = "done"
       /\ auth.reqs[r].normalized = auth.reqs[q].normalized /\ auth.reqs[r].normalized # ""
       => AnsweredError(r) \/ AnsweredError(q)

\* A register and a verifyOtp for the same address, written differently,
\* both past their findOne with no user found: one created the user, the
\* other's create was rejected by the index.
C29_Witness ==
  /\ auth.reqs["r1"].kind = "register" /\ auth.reqs["r2"].kind = "verifyOtp"
  /\ auth.reqs["r1"].email # auth.reqs["r2"].email
  /\ auth.reqs["r1"].normalized = auth.reqs["r2"].normalized
  /\ ~auth.reqs["r1"].existing /\ ~auth.reqs["r2"].existing
  /\ Succeeded("r2") /\ Created("r2")
  /\ AnsweredError("r1") /\ auth.reqs["r1"].res = NextErr
  /\ Len(auth.users) = 1

\* C30: a register or verifyOtp request that answered with an error status
\* has created no user, also when storing the refresh token failed after
\* the user was created; and no request is answered 409 because of a user
\* that an earlier request created before it answered with an error.
C30_AsClaimed ==
  /\ \A r \in ReqIds :
       auth.reqs[r].kind \in {"register", "verifyOtp"} /\ AnsweredError(r) => ~Created(r)
  /\ \A r \in ReqIds, q \in ReqIds :
       /\ auth.reqs[r].kind \in {"register", "verifyOtp"}
       /\ auth.reqs[r].pc = "done" /\ auth.reqs[r].res[1].status = 409
       /\ q \in auth.reqs[r].after /\ AnsweredError(q)
       => ~(Created(q) /\ auth.reqs[q].normalized = auth.reqs[r].normalized)

\* The store holds this entry under email e.
HoldsEntry(store, e, entry) == store[e] # <<>> /\ store[e][1] = entry

\* The step of verifyOtp request r in which it accepts the code.
Accepts(r) == auth.reqs[r].pc = "found" /\ auth'.reqs[r].pc = "hashed"

\* C31: verifyOtp accepts a code only when no user was found for the
\* normalized email and the store holds an entry for it that is unexpired,
\* whose code is the trimmed submitted code and that has name and password;
\* it creates the user only after accepting and while no user has the
\* email, and stores a refresh token only for the user it created; when it
\* answers success, or rejects for missing signup data, the entry is out of
\* the store; and no entry is redeemed by two requests.
C31_VerifyOtpGuards ==
  /\ [][\A r \in ReqIds : auth.reqs[r].kind = "verifyOtp" =>
          LET me == auth.reqs[r]
              e == me.normalized
          IN /\ Accepts(r) =>
                  /\ ~me.existing
                  /\ auth.otpStore[e] # <<>>
                  /\ auth.now <= auth.otpStore[e][1].expiresAt
                  /\ auth.otpStore[e][1].otp = Trim(me.code[2])
                  /\ Truthy(auth.otpStore[e][1].name)
                  /\ Truthy(auth.otpStore[e][1].password)
                  /\ auth'.reqs[r].stored = auth.otpStore[e]
             /\ Len(auth'.users) > Len(auth.users) /\ auth'.users[Len(auth'.users)].id = r =>
                  me.pc = "hashed" /\ ~UserWithEmail(e)
             /\ (\E d \in auth'.tokens \ auth.tokens : d.user = r) =>
                  me.pc = "token" /\ Created(r)
             /\ auth'.reqs[r].pc = "done" /\ me.pc # "done"
                /\ auth'.reqs[r].res[1].status = 200 =>
                  /\ me.pc = "token"
                  /\ ~HoldsEntry(auth'.otpStore, e, me.stored[1])
             /\ auth'.reqs[r].pc = "done" /\ me.pc = "found"
                /\ auth'.reqs[r].res[1].body.error =
                     "Invalid signup data. Please start registration again." =>
                  auth'.otpStore[e] = <<>>
      ]_vars
  /\ [](\A r \in ReqIds, q \in ReqIds :
          r # q /\ Created(r) /\ Created(q)
          => auth.reqs[r].normalized # auth.reqs[q].normalized)

\* Two verifyOtp requests with the right code for the same entry: one
\* created the user and answered success, the other was answered an error.
C31_Witness ==
  /\ auth.reqs["r2"].code = Str(" 111111 ") /\ auth.reqs["r3"].code = Str(" 111111 ")
  /\ Succeeded("r2") /\ Created("r2")
  /\ auth.reqs["r2"].stored # <<>> /\ auth.reqs["r3"].stored = auth.reqs["r2"].stored
  /\ AnsweredError("r3") /\ ~Created("r3")
  /\ auth.otpStore["ann@x.io"] = <<>>

\* The step is the cleanup: the store changes and no request moves.
CleanupStep == auth'.reqs = auth.reqs /\ auth'.otpStore # auth.otpStore

\* C32: sendOtp stores its entry with expiresAt ten minutes after the time
\* of storing; verifyOtp accepts an entry at time t only if t <= expiresAt,
\* and deletes an entry it finds expired, answering 400; the cleanup deletes
\* exactly the entries with expiresAt < now, none that verifyOtp would still
\* accept at that time.
C32_ExpiryConsistent ==
  [][/\ \A r \in ReqIds :
          LET me == auth.reqs[r]
              e == me.normalized
          IN /\ me.kind = "sendOtp" /\ me.pc = "found" /\ auth'.reqs[r].pc = "mailing" =>
                  /\ auth'.otpStore[e] # <<>>
                  /\ auth'.otpStore[e][1].by = r
                  /\ auth'.otpStore[e][1].expiresAt = auth.now + 10 * 60 * 1000
             /\ me.kind = "verifyOtp" /\ Accepts(r) =>
                  auth.now <= auth.otpStore[e][1].expiresAt
             /\ /\ me.kind = "verifyOtp" /\ me.pc = "found" /\ auth'.reqs[r].pc # "found"
                /\ ~me.existing /\ auth.otpStore[e] # <<>>
                /\ auth.now > auth.otpStore[e][1].expiresAt
                => /\ auth'.otpStore[e] = <<>>
                   /\ auth'.reqs[r].res = ErrorReply(400, "OTP expired. Please request a new code.")
     /\ CleanupStep =>
          \A e \in NormalEmails :
            /\ auth.otpStore[e] # <<>> /\ auth.otpStore[e][1].expiresAt < auth.now
                 => auth'.otpStore[e] = <<>>
            /\ auth.otpStore[e] # <<>> /\ auth.now <= auth.otpStore[e][1].expiresAt
                 => auth'.otpStore[e] = auth.otpStore[e]
    ]_vars

\* The cleanup has removed the expired entry of the earlier sendOtp, and the
\* store holds a later entry that is not expired.
C32_Witness ==
  /\ [by |-> "earlier", cause |-> "expired", actor |-> "cleanup"] \in auth.removed
  /\ auth.otpStore["ann@x.io"] # <<>>
  /\ auth.otpStore["ann@x.io"][1].by = "r1"
  /\ auth.now <= auth.otpStore["ann@x.io"][1].expiresAt
  /\ auth.now > OtpTtlMs

\* Request r was answered 'refresh token expired'.
AnsweredExpired(r) ==
  /\ auth.reqs[r].pc = "done"
  /\ auth.reqs[r].res = ErrorReply(401, "refresh token expired")

\* What refresh issues: the new value in the store, or the success
\* response, which carries the cookies.
Issued(r) ==
  \/ \E d \in auth.tokens : d.token = NewRefreshOf[r]
  \/ Succeeded(r)

\* The lookups of request r found the presented value, unexpired, and its
\* user.
Entitled(r) ==
  /\ Truthy(auth.reqs[r].cookie)
  /\ auth.reqs[r].stored # <<>>
  /\ auth.reqs[r].stored[1].token = auth.reqs[r].cookie[2]
  /\ ~auth.reqs[r].stored[1].expired
  /\ auth.reqs[r].user = <<auth.reqs[r].stored[1].user>>
  /\ UserWithId(auth.reqs[r].user[1])

FailedUnregistered(r) ==
  /\ auth.reqs[r].kind = "login" /\ auth.reqs[r].pc = "done"
  /\ Present(auth.reqs[r].email) /\ Present(auth.reqs[r].password)
  /\ ~UserWithEmail(auth.reqs[r].normalized)

\* Request r is a login that failed for a registered email with a password
\* that is not the user's.
FailedWrongPassword(r) ==
  /\ auth.reqs[r].kind = "login" /\ auth.reqs[r].pc = "done"
  /\ Present(auth.reqs[r].email) /\ Present(auth.reqs[r].password)
  /\ UserWithEmail(auth.reqs[r].normalized)
  /\ auth.reqs[r].password # Str(SeedPassword)

\* C34: a login for an unregistered email and a login for a registered
\* email with a wrong password get the same response, 401 'invalid
\* credentials', and neither stores a refresh token or sets a cookie.
C34_AsClaimed ==
  \A r \in ReqIds, q \in ReqIds :
    FailedUnregistered(r) /\ FailedWrongPassword(q) =>
      /\ auth.reqs[r].res = auth.reqs[q].res
      /\ auth.reqs[r].res = ErrorReply(401, "invalid credentials")
      /\ \A d \in auth.tokens : d.token \notin {NewRefreshOf[r], NewRefreshOf[q]}

\* The step removes the user's document.
UserDeleted(id) == UserWithId(id) /\ ~(\E k \in 1..Len(auth'.users) : auth'.users[k].id = id)

\* C35: when deleteAccount removes the user's document, the user's
\* messages, chats and refresh tokens are gone, none issued before remains;
\* and no refresh request for that user answers success once the document
\* is removed.
C35_AsClaimed ==
  [][/\ UserDeleted(SeedUser.id) =>
          /\ \A d \in auth'.tokens : d.user # SeedUser.id
          /\ \A c \in auth'.chats : c.user # SeedUser.id
          /\ auth'.messages = {}
     /\ \A r \in ReqIds :
          auth.reqs[r].kind = "refresh" /\ ~Succeeded(r) /\ Succeeded(r)'
          => UserWithId(SeedUser.id)
    ]_vars

\* The step in which verifyOtp request r compares its code with an
\* unexpired entry of the store that has another code.
Mismatches(r) ==
  LET me == auth.reqs[r]
      storedData == auth.otpStore[me.normalized]
  IN /\ me.kind = "verifyOtp" /\ me.pc = "found" /\ auth'.reqs[r].pc = "done"
     /\ ~me.existing
     /\ storedData # <<>>
     /\ ~VerifyExpired(storedData[1])
     /\ me.code # Str(storedData[1].otp)
     /\ (IsStr(me.code) => Trim(me.code[2]) # storedData[1].otp)

\* C36: verifyOtp with a code that does not match the stored, unexpired
\* code answers 400 and leaves the OTP store, the users and the refresh
\* tokens as they were.
C36_AsClaimed ==
  [][\A r \in ReqIds : Mismatches(r) =>
        /\ auth'.reqs[r].res[1].status = 400
        /\ auth'.otpStore = auth.otpStore
        /\ auth'.users = auth.users
        /\ auth'.tokens = auth.tokens
    ]_vars

====
